---- MODULE Spec2Model ----
(***************************************************************************)
(* Model of the debt payoff simulation engine of debtreduction             *)
(* (src/debtreduction/simulation.py): quantize, add_months, order_debts    *)
(* and run_simulation.                                                     *)
(*                                                                         *)
(* Money is a Decimal in the source.  Here every Decimal amount that lies  *)
(* on the 2-decimal lattice is the integer number of cents.  The only      *)
(* value produced off the lattice is balance * monthly_rate(), where       *)
(* monthly_rate() is Decimal(str(apr)) / 1200 rounded to the 28            *)
(* significant digits of Decimal's context, and the product is rounded to  *)
(* 28 digits again; monthly_interest gives the cents quantize makes of it. *)
(* quantize raises decimal.InvalidOperation for an amount of 10^28 cents or*)
(* more, which interest can reach; the run then ends with that exception.  *)
(* APR values are whole percents.  The 2-decimal strings of the output are *)
(* records [neg, whole, frac].                                             *)
(***************************************************************************)
EXTENDS Integers, Sequences, FiniteSets, TLC

VARIABLES
    settings,            \* Setting: [balance_date, monthly_budget, strategy]
    debts,               \* the Debt rows handed to run_simulation, in list order
    schedule_overrides,  \* the ScheduleOverride rows, in list order
    payment_overrides,   \* the PaymentOverride rows, in list order
    pc,                  \* "start", "loop", "returned" or "error"
    error,               \* the exception raised, "none" while there is none: a
                         \* SimulationError ("insufficient_budget",
                         \* "unknown_strategy", "exceeded") or the ValueError
                         \* of date() ("date_out_of_range") or the
                         \* decimal.InvalidOperation of Decimal.quantize
                         \* ("invalid_operation")
    debt_states,         \* the DebtState list (input order)
    ordered_ids_initial, \* ids in the order computed once before the loop
    min_payment_sum,
    monthly_budget,
    initial_snowball,
    freed_minimums,
    total_interest,
    paid_ids,
    month_index,
    date_cursor,
    months_output,       \* the month records appended so far
    ordered_states,      \* the latest order computed (before the loop, then by
                         \* every loop iteration), as indexes into debt_states
    balances_after_interest, \* that local of the latest loop iteration
    result               \* the returned dict, NoResult until run_simulation returns

vars == <<settings, debts, schedule_overrides, payment_overrides, pc, error,
          debt_states, ordered_ids_initial, min_payment_sum, monthly_budget,
          initial_snowball, freed_minimums, total_interest, paid_ids,
          month_index, date_cursor, months_output, ordered_states,
          balances_after_interest, result>>

inputs == <<settings, debts, schedule_overrides, payment_overrides>>

-----------------------------------------------------------------------------
(* Arithmetic helpers *)

Abs(x) == IF x < 0 THEN -x ELSE x

Min(a, b) == IF a <= b THEN a ELSE b

Max(a, b) == IF a >= b THEN a ELSE b

RECURSIVE Pow10(_)
Pow10(e) == IF e <= 0 THEN 1 ELSE 10 * Pow10(e - 1)

\* The number of decimal digits of k (0 for k = 0).
RECURSIVE DecimalDigits(_)
DecimalDigits(k) == IF k <= 0 THEN 0 ELSE 1 + DecimalDigits(k \div 10)

\* The precision of the decimal context the module computes in
\* (decimal.getcontext().prec, never changed by the code).
ContextPrecision == 28

\* What an operation yields that raises decimal.InvalidOperation.
InvalidOperation == "InvalidOperation"

\* A mutant of quantize_ratio: rounds toward zero instead of half-up.
quantize_ratio_truncating(num, den) ==
    IF num >= 0 THEN num \div den ELSE -((-num) \div den)

\* quantize applied to the exact value num/den cents (den > 0):
\* Decimal.quantize(CENT, rounding=ROUND_HALF_UP), ties away from zero.
quantize_ratio(num, den) ==
    IF num >= 0 THEN (2 * num + den) \div (2 * den)
    ELSE -((2 * (-num) + den) \div (2 * den))

\* amount.quantize(CENT) raises decimal.InvalidOperation when the 2-decimal
\* result needs more digits than the context's precision: an amount of
\* 10^28 cents (1E+26) or more.
quantize_raises(amount) == DecimalDigits(Abs(amount)) > ContextPrecision

\* quantize of an amount already expressed in whole cents (the amount is
\* bound once, as the one element of a set).
quantize(amount) ==
    CHOOSE q \in {IF quantize_raises(cents) THEN InvalidOperation
                   ELSE quantize_ratio(cents, 1) : cents \in {amount}} : TRUE

\* str(quantize(x)) and f"{x:.2f}": the fixed 2-decimal text of an amount.
money_str(amount) ==
    [neg |-> amount < 0,
     whole |-> (Abs(quantize(amount)) \div 100),
     frac |-> (Abs(quantize(amount)) % 100)]

\* The amount a 2-decimal text denotes, in cents (used to read the output).
Cents(s) == IF s.neg THEN -((s.whole * 100) + s.frac) ELSE (s.whole * 100) + s.frac

RECURSIVE SumSeq(_)
SumSeq(s) == IF s = <<>> THEN 0 ELSE Head(s) + SumSeq(Tail(s))

\* sum(...) over the values of a dict keyed by 1..n, or over a list.
SumFn(f) == SumSeq([i \in 1..Len(f) |-> f[i]])

-----------------------------------------------------------------------------
(* Calendar helpers *)

IsLeap(year) == ((year % 4) = 0 /\ (year % 100) # 0) \/ (year % 400) = 0

\* calendar.monthrange(year, month)[1]
DaysInMonth(year, month) ==
    IF month = 2 THEN (IF IsLeap(year) THEN 29 ELSE 28)
    ELSE IF month \in {4, 6, 9, 11} THEN 30
    ELSE 31

\* datetime.MINYEAR and datetime.MAXYEAR: date(year, month, day) raises
\* ValueError for a year outside them.
MinYear == 1

MaxYear == 9999

\* add_months: [raised |-> TRUE] when date(...) raises ValueError, otherwise
\* the date it returns.
add_months(start, months) ==
    LET year == start.year + ((start.month - 1 + months) \div 12)
        month == ((start.month - 1 + months) % 12) + 1
        last_day == DaysInMonth(year, month)
    IN IF year < MinYear \/ year > MaxYear
       THEN [raised |-> TRUE]
       ELSE [raised |-> FALSE,
             date |-> [year |-> year, month |-> month, day |-> Min(start.day, last_day)]]

\* date.strftime("%b %Y"): the month name and the year.
month_label(d) == [month |-> d.month, year |-> d.year]

-----------------------------------------------------------------------------
(* Ordering policy.  A creditor name is the sequence of its character      *)
(* codes; Optional[int] is <<>> for None and <<n>> for the integer n.      *)

\* str.lower() follows the Unicode character database of the interpreter
\* (Unicode 14.0).  The letters that have a one-character lower case, as
\* <<first, last, step, offset>>: every code first, first + step, ..., last
\* is lowered by adding offset.
LowerOffsets ==
    {<<65, 90, 1, 32>>, <<192, 214, 1, 32>>, <<216, 222, 1, 32>>,
     <<256, 302, 2, 1>>, <<306, 310, 2, 1>>, <<313, 327, 2, 1>>,
     <<330, 374, 2, 1>>, <<376, 376, 1, -121>>, <<377, 381, 2, 1>>,
     <<385, 385, 1, 210>>, <<386, 388, 2, 1>>, <<390, 390, 1, 206>>,
     <<391, 391, 1, 1>>, <<393, 394, 1, 205>>, <<395, 395, 1, 1>>,
     <<398, 398, 1, 79>>, <<399, 399, 1, 202>>, <<400, 400, 1, 203>>,
     <<401, 401, 1, 1>>, <<403, 403, 1, 205>>, <<404, 404, 1, 207>>,
     <<406, 406, 1, 211>>, <<407, 407, 1, 209>>, <<408, 408, 1, 1>>,
     <<412, 412, 1, 211>>, <<413, 413, 1, 213>>, <<415, 415, 1, 214>>,
     <<416, 420, 2, 1>>, <<422, 422, 1, 218>>, <<423, 423, 1, 1>>,
     <<425, 425, 1, 218>>, <<428, 428, 1, 1>>, <<430, 430, 1, 218>>,
     <<431, 431, 1, 1>>, <<433, 434, 1, 217>>, <<435, 437, 2, 1>>,
     <<439, 439, 1, 219>>, <<440, 440, 1, 1>>, <<444, 444, 1, 1>>,
     <<452, 452, 1, 2>>, <<453, 453, 1, 1>>, <<455, 455, 1, 2>>,
     <<456, 456, 1, 1>>, <<458, 458, 1, 2>>, <<459, 475, 2, 1>>,
     <<478, 494, 2, 1>>, <<497, 497, 1, 2>>, <<498, 500, 2, 1>>,
     <<502, 502, 1, -97>>, <<503, 503, 1, -56>>, <<504, 542, 2, 1>>,
     <<544, 544, 1, -130>>, <<546, 562, 2, 1>>, <<570, 570, 1, 10795>>,
     <<571, 571, 1, 1>>, <<573, 573, 1, -163>>, <<574, 574, 1, 10792>>,
     <<577, 577, 1, 1>>, <<579, 579, 1, -195>>, <<580, 580, 1, 69>>,
     <<581, 581, 1, 71>>, <<582, 590, 2, 1>>, <<880, 882, 2, 1>>,
     <<886, 886, 1, 1>>, <<895, 895, 1, 116>>, <<902, 902, 1, 38>>,
     <<904, 906, 1, 37>>, <<908, 908, 1, 64>>, <<910, 911, 1, 63>>,
     <<913, 929, 1, 32>>, <<931, 939, 1, 32>>, <<975, 975, 1, 8>>,
     <<984, 1006, 2, 1>>, <<1012, 1012, 1, -60>>, <<1015, 1015, 1, 1>>,
     <<1017, 1017, 1, -7>>, <<1018, 1018, 1, 1>>, <<1021, 1023, 1, -130>>,
     <<1024, 1039, 1, 80>>, <<1040, 1071, 1, 32>>, <<1120, 1152, 2, 1>>,
     <<1162, 1214, 2, 1>>, <<1216, 1216, 1, 15>>, <<1217, 1229, 2, 1>>,
     <<1232, 1326, 2, 1>>, <<1329, 1366, 1, 48>>, <<4256, 4293, 1, 7264>>,
     <<4295, 4295, 1, 7264>>, <<4301, 4301, 1, 7264>>,
     <<5024, 5103, 1, 38864>>, <<5104, 5109, 1, 8>>, <<7312, 7354, 1, -3008>>,
     <<7357, 7359, 1, -3008>>, <<7680, 7828, 2, 1>>, <<7838, 7838, 1, -7615>>,
     <<7840, 7934, 2, 1>>, <<7944, 7951, 1, -8>>, <<7960, 7965, 1, -8>>,
     <<7976, 7983, 1, -8>>, <<7992, 7999, 1, -8>>, <<8008, 8013, 1, -8>>,
     <<8025, 8031, 2, -8>>, <<8040, 8047, 1, -8>>, <<8072, 8079, 1, -8>>,
     <<8088, 8095, 1, -8>>, <<8104, 8111, 1, -8>>, <<8120, 8121, 1, -8>>,
     <<8122, 8123, 1, -74>>, <<8124, 8124, 1, -9>>, <<8136, 8139, 1, -86>>,
     <<8140, 8140, 1, -9>>, <<8152, 8153, 1, -8>>, <<8154, 8155, 1, -100>>,
     <<8168, 8169, 1, -8>>, <<8170, 8171, 1, -112>>, <<8172, 8172, 1, -7>>,
     <<8184, 8185, 1, -128>>, <<8186, 8187, 1, -126>>, <<8188, 8188, 1, -9>>,
     <<8486, 8486, 1, -7517>>, <<8490, 8490, 1, -8383>>,
     <<8491, 8491, 1, -8262>>, <<8498, 8498, 1, 28>>, <<8544, 8559, 1, 16>>,
     <<8579, 8579, 1, 1>>, <<9398, 9423, 1, 26>>, <<11264, 11311, 1, 48>>,
     <<11360, 11360, 1, 1>>, <<11362, 11362, 1, -10743>>,
     <<11363, 11363, 1, -3814>>, <<11364, 11364, 1, -10727>>,
     <<11367, 11371, 2, 1>>, <<11373, 11373, 1, -10780>>,
     <<11374, 11374, 1, -10749>>, <<11375, 11375, 1, -10783>>,
     <<11376, 11376, 1, -10782>>, <<11378, 11378, 1, 1>>,
     <<11381, 11381, 1, 1>>, <<11390, 11391, 1, -10815>>,
     <<11392, 11490, 2, 1>>, <<11499, 11501, 2, 1>>, <<11506, 11506, 1, 1>>,
     <<42560, 42604, 2, 1>>, <<42624, 42650, 2, 1>>, <<42786, 42798, 2, 1>>,
     <<42802, 42862, 2, 1>>, <<42873, 42875, 2, 1>>,
     <<42877, 42877, 1, -35332>>, <<42878, 42886, 2, 1>>,
     <<42891, 42891, 1, 1>>, <<42893, 42893, 1, -42280>>,
     <<42896, 42898, 2, 1>>, <<42902, 42920, 2, 1>>,
     <<42922, 42922, 1, -42308>>, <<42923, 42923, 1, -42319>>,
     <<42924, 42924, 1, -42315>>, <<42925, 42925, 1, -42305>>,
     <<42926, 42926, 1, -42308>>, <<42928, 42928, 1, -42258>>,
     <<42929, 42929, 1, -42282>>, <<42930, 42930, 1, -42261>>,
     <<42931, 42931, 1, 928>>, <<42932, 42946, 2, 1>>,
     <<42948, 42948, 1, -48>>, <<42949, 42949, 1, -42307>>,
     <<42950, 42950, 1, -35384>>, <<42951, 42953, 2, 1>>,
     <<42960, 42960, 1, 1>>, <<42966, 42968, 2, 1>>, <<42997, 42997, 1, 1>>,
     <<65313, 65338, 1, 32>>, <<66560, 66599, 1, 40>>,
     <<66736, 66771, 1, 40>>, <<66928, 66938, 1, 39>>,
     <<66940, 66954, 1, 39>>, <<66956, 66962, 1, 39>>,
     <<66964, 66965, 1, 39>>, <<68736, 68786, 1, 64>>,
     <<71840, 71871, 1, 32>>, <<93760, 93791, 1, 32>>,
     <<125184, 125217, 1, 34>>}

\* The cased letters that are not case-ignorable, as <<first, last, step>>.
CasedLetters ==
    {<<65, 90, 1>>, <<97, 122, 1>>, <<170, 170, 1>>, <<181, 181, 1>>,
     <<186, 186, 1>>, <<192, 214, 1>>, <<216, 246, 1>>, <<248, 442, 1>>,
     <<444, 447, 1>>, <<452, 659, 1>>, <<661, 687, 1>>, <<880, 883, 1>>,
     <<886, 887, 1>>, <<891, 893, 1>>, <<895, 895, 1>>, <<902, 904, 2>>,
     <<905, 906, 1>>, <<908, 910, 2>>, <<911, 929, 1>>, <<931, 1013, 1>>,
     <<1015, 1153, 1>>, <<1162, 1327, 1>>, <<1329, 1366, 1>>,
     <<1376, 1416, 1>>, <<4256, 4293, 1>>, <<4295, 4295, 1>>,
     <<4301, 4301, 1>>, <<4304, 4346, 1>>, <<4349, 4351, 1>>,
     <<5024, 5109, 1>>, <<5112, 5117, 1>>, <<7296, 7304, 1>>,
     <<7312, 7354, 1>>, <<7357, 7359, 1>>, <<7424, 7467, 1>>,
     <<7531, 7543, 1>>, <<7545, 7578, 1>>, <<7680, 7957, 1>>,
     <<7960, 7965, 1>>, <<7968, 8005, 1>>, <<8008, 8013, 1>>,
     <<8016, 8023, 1>>, <<8025, 8031, 2>>, <<8032, 8061, 1>>,
     <<8064, 8116, 1>>, <<8118, 8124, 1>>, <<8126, 8126, 1>>,
     <<8130, 8132, 1>>, <<8134, 8140, 1>>, <<8144, 8147, 1>>,
     <<8150, 8155, 1>>, <<8160, 8172, 1>>, <<8178, 8180, 1>>,
     <<8182, 8188, 1>>, <<8450, 8450, 1>>, <<8455, 8455, 1>>,
     <<8458, 8467, 1>>, <<8469, 8469, 1>>, <<8473, 8477, 1>>,
     <<8484, 8490, 2>>, <<8491, 8493, 1>>, <<8495, 8500, 1>>,
     <<8505, 8505, 1>>, <<8508, 8511, 1>>, <<8517, 8521, 1>>,
     <<8526, 8526, 1>>, <<8544, 8575, 1>>, <<8579, 8580, 1>>,
     <<9398, 9449, 1>>, <<11264, 11387, 1>>, <<11390, 11492, 1>>,
     <<11499, 11502, 1>>, <<11506, 11507, 1>>, <<11520, 11557, 1>>,
     <<11559, 11559, 1>>, <<11565, 11565, 1>>, <<42560, 42605, 1>>,
     <<42624, 42651, 1>>, <<42786, 42863, 1>>, <<42865, 42887, 1>>,
     <<42891, 42894, 1>>, <<42896, 42954, 1>>, <<42960, 42961, 1>>,
     <<42963, 42965, 2>>, <<42966, 42969, 1>>, <<42997, 42998, 1>>,
     <<43002, 43002, 1>>, <<43824, 43866, 1>>, <<43872, 43880, 1>>,
     <<43888, 43967, 1>>, <<64256, 64262, 1>>, <<64275, 64279, 1>>,
     <<65313, 65338, 1>>, <<65345, 65370, 1>>, <<66560, 66639, 1>>,
     <<66736, 66771, 1>>, <<66776, 66811, 1>>, <<66928, 66938, 1>>,
     <<66940, 66954, 1>>, <<66956, 66962, 1>>, <<66964, 66965, 1>>,
     <<66967, 66977, 1>>, <<66979, 66993, 1>>, <<66995, 67001, 1>>,
     <<67003, 67004, 1>>, <<68736, 68786, 1>>, <<68800, 68850, 1>>,
     <<71840, 71903, 1>>, <<93760, 93823, 1>>, <<119808, 119892, 1>>,
     <<119894, 119964, 1>>, <<119966, 119967, 1>>, <<119970, 119970, 1>>,
     <<119973, 119974, 1>>, <<119977, 119980, 1>>, <<119982, 119993, 1>>,
     <<119995, 119997, 2>>, <<119998, 120003, 1>>, <<120005, 120069, 1>>,
     <<120071, 120074, 1>>, <<120077, 120084, 1>>, <<120086, 120092, 1>>,
     <<120094, 120121, 1>>, <<120123, 120126, 1>>, <<120128, 120132, 1>>,
     <<120134, 120134, 1>>, <<120138, 120144, 1>>, <<120146, 120485, 1>>,
     <<120488, 120512, 1>>, <<120514, 120538, 1>>, <<120540, 120570, 1>>,
     <<120572, 120596, 1>>, <<120598, 120628, 1>>, <<120630, 120654, 1>>,
     <<120656, 120686, 1>>, <<120688, 120712, 1>>, <<120714, 120744, 1>>,
     <<120746, 120770, 1>>, <<120772, 120779, 1>>, <<122624, 122633, 1>>,
     <<122635, 122654, 1>>, <<125184, 125251, 1>>, <<127280, 127305, 1>>,
     <<127312, 127337, 1>>, <<127344, 127369, 1>>}

\* The case-ignorable characters (marks, modifiers, some punctuation), as
\* <<first, last, step>>.
CaseIgnorables ==
    {<<39, 39, 1>>, <<46, 46, 1>>, <<58, 58, 1>>, <<94, 96, 2>>,
     <<168, 168, 1>>, <<173, 175, 2>>, <<180, 180, 1>>, <<183, 184, 1>>,
     <<688, 879, 1>>, <<884, 885, 1>>, <<890, 890, 1>>, <<900, 901, 1>>,
     <<903, 903, 1>>, <<1155, 1161, 1>>, <<1369, 1369, 1>>, <<1375, 1375, 1>>,
     <<1425, 1469, 1>>, <<1471, 1473, 2>>, <<1474, 1476, 2>>,
     <<1477, 1479, 2>>, <<1524, 1524, 1>>, <<1536, 1541, 1>>,
     <<1552, 1562, 1>>, <<1564, 1564, 1>>, <<1600, 1600, 1>>,
     <<1611, 1631, 1>>, <<1648, 1648, 1>>, <<1750, 1757, 1>>,
     <<1759, 1768, 1>>, <<1770, 1773, 1>>, <<1807, 1809, 2>>,
     <<1840, 1866, 1>>, <<1958, 1968, 1>>, <<2027, 2037, 1>>,
     <<2042, 2042, 1>>, <<2045, 2045, 1>>, <<2070, 2093, 1>>,
     <<2137, 2139, 1>>, <<2184, 2184, 1>>, <<2192, 2193, 1>>,
     <<2200, 2207, 1>>, <<2249, 2306, 1>>, <<2362, 2364, 2>>,
     <<2369, 2376, 1>>, <<2381, 2381, 1>>, <<2385, 2391, 1>>,
     <<2402, 2403, 1>>, <<2417, 2417, 1>>, <<2433, 2433, 1>>,
     <<2492, 2492, 1>>, <<2497, 2500, 1>>, <<2509, 2509, 1>>,
     <<2530, 2531, 1>>, <<2558, 2558, 1>>, <<2561, 2562, 1>>,
     <<2620, 2620, 1>>, <<2625, 2626, 1>>, <<2631, 2632, 1>>,
     <<2635, 2637, 1>>, <<2641, 2641, 1>>, <<2672, 2673, 1>>,
     <<2677, 2677, 1>>, <<2689, 2690, 1>>, <<2748, 2748, 1>>,
     <<2753, 2757, 1>>, <<2759, 2760, 1>>, <<2765, 2765, 1>>,
     <<2786, 2787, 1>>, <<2810, 2815, 1>>, <<2817, 2817, 1>>,
     <<2876, 2876, 1>>, <<2879, 2881, 2>>, <<2882, 2884, 1>>,
     <<2893, 2893, 1>>, <<2901, 2902, 1>>, <<2914, 2915, 1>>,
     <<2946, 2946, 1>>, <<3008, 3008, 1>>, <<3021, 3021, 1>>,
     <<3072, 3072, 1>>, <<3076, 3076, 1>>, <<3132, 3134, 2>>,
     <<3135, 3136, 1>>, <<3142, 3144, 1>>, <<3146, 3149, 1>>,
     <<3157, 3158, 1>>, <<3170, 3171, 1>>, <<3201, 3201, 1>>,
     <<3260, 3260, 1>>, <<3263, 3263, 1>>, <<3270, 3270, 1>>,
     <<3276, 3277, 1>>, <<3298, 3299, 1>>, <<3328, 3329, 1>>,
     <<3387, 3388, 1>>, <<3393, 3396, 1>>, <<3405, 3405, 1>>,
     <<3426, 3427, 1>>, <<3457, 3457, 1>>, <<3530, 3530, 1>>,
     <<3538, 3540, 1>>, <<3542, 3542, 1>>, <<3633, 3633, 1>>,
     <<3636, 3642, 1>>, <<3654, 3662, 1>>, <<3761, 3761, 1>>,
     <<3764, 3772, 1>>, <<3782, 3784, 2>>, <<3785, 3789, 1>>,
     <<3864, 3865, 1>>, <<3893, 3897, 2>>, <<3953, 3966, 1>>,
     <<3968, 3972, 1>>, <<3974, 3975, 1>>, <<3981, 3991, 1>>,
     <<3993, 4028, 1>>, <<4038, 4038, 1>>, <<4141, 4144, 1>>,
     <<4146, 4151, 1>>, <<4153, 4154, 1>>, <<4157, 4158, 1>>,
     <<4184, 4185, 1>>, <<4190, 4192, 1>>, <<4209, 4212, 1>>,
     <<4226, 4226, 1>>, <<4229, 4230, 1>>, <<4237, 4237, 1>>,
     <<4253, 4253, 1>>, <<4348, 4348, 1>>, <<4957, 4959, 1>>,
     <<5906, 5908, 1>>, <<5938, 5939, 1>>, <<5970, 5971, 1>>,
     <<6002, 6003, 1>>, <<6068, 6069, 1>>, <<6071, 6077, 1>>,
     <<6086, 6086, 1>>, <<6089, 6099, 1>>, <<6103, 6103, 1>>,
     <<6109, 6109, 1>>, <<6155, 6159, 1>>, <<6211, 6211, 1>>,
     <<6277, 6278, 1>>, <<6313, 6313, 1>>, <<6432, 6434, 1>>,
     <<6439, 6440, 1>>, <<6450, 6450, 1>>, <<6457, 6459, 1>>,
     <<6679, 6680, 1>>, <<6683, 6683, 1>>, <<6742, 6744, 2>>,
     <<6745, 6750, 1>>, <<6752, 6754, 2>>, <<6757, 6764, 1>>,
     <<6771, 6780, 1>>, <<6783, 6783, 1>>, <<6823, 6823, 1>>,
     <<6832, 6862, 1>>, <<6912, 6915, 1>>, <<6964, 6966, 2>>,
     <<6967, 6970, 1>>, <<6972, 6972, 1>>, <<6978, 6978, 1>>,
     <<7019, 7027, 1>>, <<7040, 7041, 1>>, <<7074, 7077, 1>>,
     <<7080, 7081, 1>>, <<7083, 7085, 1>>, <<7142, 7144, 2>>,
     <<7145, 7145, 1>>, <<7149, 7151, 2>>, <<7152, 7153, 1>>,
     <<7212, 7219, 1>>, <<7222, 7223, 1>>, <<7288, 7293, 1>>,
     <<7376, 7378, 1>>, <<7380, 7392, 1>>, <<7394, 7400, 1>>,
     <<7405, 7405, 1>>, <<7412, 7412, 1>>, <<7416, 7417, 1>>,
     <<7468, 7530, 1>>, <<7544, 7544, 1>>, <<7579, 7679, 1>>,
     <<8125, 8127, 2>>, <<8128, 8129, 1>>, <<8141, 8143, 1>>,
     <<8157, 8159, 1>>, <<8173, 8175, 1>>, <<8189, 8190, 1>>,
     <<8203, 8207, 1>>, <<8216, 8217, 1>>, <<8228, 8228, 1>>,
     <<8231, 8231, 1>>, <<8234, 8238, 1>>, <<8288, 8292, 1>>,
     <<8294, 8303, 1>>, <<8305, 8305, 1>>, <<8319, 8319, 1>>,
     <<8336, 8348, 1>>, <<8400, 8432, 1>>, <<11388, 11389, 1>>,
     <<11503, 11505, 1>>, <<11631, 11631, 1>>, <<11647, 11647, 1>>,
     <<11744, 11775, 1>>, <<11823, 11823, 1>>, <<12293, 12293, 1>>,
     <<12330, 12333, 1>>, <<12337, 12341, 1>>, <<12347, 12347, 1>>,
     <<12441, 12446, 1>>, <<12540, 12542, 1>>, <<40981, 40981, 1>>,
     <<42232, 42237, 1>>, <<42508, 42508, 1>>, <<42607, 42610, 1>>,
     <<42612, 42621, 1>>, <<42623, 42623, 1>>, <<42652, 42655, 1>>,
     <<42736, 42737, 1>>, <<42752, 42785, 1>>, <<42864, 42864, 1>>,
     <<42888, 42890, 1>>, <<42994, 42996, 1>>, <<43000, 43001, 1>>,
     <<43010, 43010, 1>>, <<43014, 43014, 1>>, <<43019, 43019, 1>>,
     <<43045, 43046, 1>>, <<43052, 43052, 1>>, <<43204, 43205, 1>>,
     <<43232, 43249, 1>>, <<43263, 43263, 1>>, <<43302, 43309, 1>>,
     <<43335, 43345, 1>>, <<43392, 43394, 1>>, <<43443, 43443, 1>>,
     <<43446, 43449, 1>>, <<43452, 43453, 1>>, <<43471, 43471, 1>>,
     <<43493, 43494, 1>>, <<43561, 43566, 1>>, <<43569, 43570, 1>>,
     <<43573, 43574, 1>>, <<43587, 43587, 1>>, <<43596, 43596, 1>>,
     <<43632, 43632, 1>>, <<43644, 43644, 1>>, <<43696, 43698, 2>>,
     <<43699, 43700, 1>>, <<43703, 43704, 1>>, <<43710, 43711, 1>>,
     <<43713, 43713, 1>>, <<43741, 43741, 1>>, <<43756, 43757, 1>>,
     <<43763, 43764, 1>>, <<43766, 43766, 1>>, <<43867, 43871, 1>>,
     <<43881, 43883, 1>>, <<44005, 44005, 1>>, <<44008, 44008, 1>>,
     <<44013, 44013, 1>>, <<64286, 64286, 1>>, <<64434, 64450, 1>>,
     <<65024, 65039, 1>>, <<65043, 65043, 1>>, <<65056, 65071, 1>>,
     <<65106, 65106, 1>>, <<65109, 65109, 1>>, <<65279, 65279, 1>>,
     <<65287, 65287, 1>>, <<65294, 65294, 1>>, <<65306, 65306, 1>>,
     <<65342, 65344, 2>>, <<65392, 65392, 1>>, <<65438, 65439, 1>>,
     <<65507, 65507, 1>>, <<65529, 65531, 1>>, <<66045, 66045, 1>>,
     <<66272, 66272, 1>>, <<66422, 66426, 1>>, <<67456, 67461, 1>>,
     <<67463, 67504, 1>>, <<67506, 67514, 1>>, <<68097, 68099, 1>>,
     <<68101, 68102, 1>>, <<68108, 68111, 1>>, <<68152, 68154, 1>>,
     <<68159, 68159, 1>>, <<68325, 68326, 1>>, <<68900, 68903, 1>>,
     <<69291, 69292, 1>>, <<69446, 69456, 1>>, <<69506, 69509, 1>>,
     <<69633, 69633, 1>>, <<69688, 69702, 1>>, <<69744, 69744, 1>>,
     <<69747, 69748, 1>>, <<69759, 69761, 1>>, <<69811, 69814, 1>>,
     <<69817, 69818, 1>>, <<69821, 69821, 1>>, <<69826, 69826, 1>>,
     <<69837, 69837, 1>>, <<69888, 69890, 1>>, <<69927, 69931, 1>>,
     <<69933, 69940, 1>>, <<70003, 70003, 1>>, <<70016, 70017, 1>>,
     <<70070, 70078, 1>>, <<70089, 70092, 1>>, <<70095, 70095, 1>>,
     <<70191, 70193, 1>>, <<70196, 70198, 2>>, <<70199, 70199, 1>>,
     <<70206, 70206, 1>>, <<70367, 70367, 1>>, <<70371, 70378, 1>>,
     <<70400, 70401, 1>>, <<70459, 70460, 1>>, <<70464, 70464, 1>>,
     <<70502, 70508, 1>>, <<70512, 70516, 1>>, <<70712, 70719, 1>>,
     <<70722, 70724, 1>>, <<70726, 70726, 1>>, <<70750, 70750, 1>>,
     <<70835, 70840, 1>>, <<70842, 70842, 1>>, <<70847, 70848, 1>>,
     <<70850, 70851, 1>>, <<71090, 71093, 1>>, <<71100, 71101, 1>>,
     <<71103, 71104, 1>>, <<71132, 71133, 1>>, <<71219, 71226, 1>>,
     <<71229, 71231, 2>>, <<71232, 71232, 1>>, <<71339, 71341, 2>>,
     <<71344, 71349, 1>>, <<71351, 71351, 1>>, <<71453, 71455, 1>>,
     <<71458, 71461, 1>>, <<71463, 71467, 1>>, <<71727, 71735, 1>>,
     <<71737, 71738, 1>>, <<71995, 71996, 1>>, <<71998, 71998, 1>>,
     <<72003, 72003, 1>>, <<72148, 72151, 1>>, <<72154, 72155, 1>>,
     <<72160, 72160, 1>>, <<72193, 72202, 1>>, <<72243, 72248, 1>>,
     <<72251, 72254, 1>>, <<72263, 72263, 1>>, <<72273, 72278, 1>>,
     <<72281, 72283, 1>>, <<72330, 72342, 1>>, <<72344, 72345, 1>>,
     <<72752, 72758, 1>>, <<72760, 72765, 1>>, <<72767, 72767, 1>>,
     <<72850, 72871, 1>>, <<72874, 72880, 1>>, <<72882, 72883, 1>>,
     <<72885, 72886, 1>>, <<73009, 73014, 1>>, <<73018, 73020, 2>>,
     <<73021, 73023, 2>>, <<73024, 73029, 1>>, <<73031, 73031, 1>>,
     <<73104, 73105, 1>>, <<73109, 73111, 2>>, <<73459, 73460, 1>>,
     <<78896, 78904, 1>>, <<92912, 92916, 1>>, <<92976, 92982, 1>>,
     <<92992, 92995, 1>>, <<94031, 94031, 1>>, <<94095, 94111, 1>>,
     <<94176, 94177, 1>>, <<94179, 94180, 1>>, <<110576, 110579, 1>>,
     <<110581, 110587, 1>>, <<110589, 110590, 1>>, <<113821, 113822, 1>>,
     <<113824, 113827, 1>>, <<118528, 118573, 1>>, <<118576, 118598, 1>>,
     <<119143, 119145, 1>>, <<119155, 119170, 1>>, <<119173, 119179, 1>>,
     <<119210, 119213, 1>>, <<119362, 119364, 1>>, <<121344, 121398, 1>>,
     <<121403, 121452, 1>>, <<121461, 121461, 1>>, <<121476, 121476, 1>>,
     <<121499, 121503, 1>>, <<121505, 121519, 1>>, <<122880, 122886, 1>>,
     <<122888, 122904, 1>>, <<122907, 122913, 1>>, <<122915, 122916, 1>>,
     <<122918, 122922, 1>>, <<123184, 123197, 1>>, <<123566, 123566, 1>>,
     <<123628, 123631, 1>>, <<125136, 125142, 1>>, <<125252, 125259, 1>>,
     <<127995, 127999, 1>>, <<917505, 917505, 1>>, <<917536, 917631, 1>>,
     <<917760, 917999, 1>>}

\* c is one of the codes a row <<first, last, step, ...>> of the table lists.
InTable(c, table) ==
    \E row \in table :
        c >= row[1] /\ c <= row[2] /\ ((c - row[1]) % row[3]) = 0

\* chr(c).lower() as the sequence of its character codes: U+0130 (capital I
\* with dot above) becomes the two characters i and combining dot above.
LowerChar(c) ==
    IF c < 128 THEN (IF c >= 65 /\ c <= 90 THEN <<c + 32>> ELSE <<c>>)
    ELSE IF c = 304 THEN <<105, 775>>
    ELSE IF InTable(c, LowerOffsets)
         THEN <<c + (CHOOSE row \in LowerOffsets :
                        c >= row[1] /\ c <= row[2] /\ ((c - row[1]) % row[3]) = 0)[4]>>
         ELSE <<c>>

\* The capital sigma at place i of name ends a word: the nearest character
\* before it that is not case-ignorable is a cased letter, and the nearest
\* one after it, if any, is not.
final_sigma(name, i) ==
    /\ \E j \in 1..(i - 1) :
          /\ InTable(name[j], CasedLetters)
          /\ \A m \in (j + 1)..(i - 1) : InTable(name[m], CaseIgnorables)
    /\ ~ \E j \in (i + 1)..Len(name) :
          /\ InTable(name[j], CasedLetters)
          /\ \A m \in (i + 1)..(j - 1) : InTable(name[m], CaseIgnorables)

\* The lower case of the characters i..Len(name) of name.
RECURSIVE lower_from(_, _)
lower_from(name, i) ==
    IF i > Len(name) THEN <<>>
    ELSE (IF name[i] = 931
          THEN (IF final_sigma(name, i) THEN <<962>> ELSE <<963>>)
          ELSE LowerChar(name[i]))
         \o lower_from(name, i + 1)

\* d.creditor.lower()
lower(name) == lower_from(name, 1)

\* Python's < on two strings: lexicographic on character codes.
RECURSIVE StrLess(_, _)
StrLess(s, t) ==
    IF t = <<>> THEN FALSE
    ELSE IF s = <<>> THEN TRUE
    ELSE IF Head(s) < Head(t) THEN TRUE
    ELSE IF Head(s) > Head(t) THEN FALSE
    ELSE StrLess(Tail(s), Tail(t))

\* The value the custom key uses for a debt without custom priority.
NoPrioritySentinel == 9999

\* d.custom_priority if d.custom_priority is not None else 9999
priority_key(d) ==
    IF d.custom_priority = <<>> THEN NoPrioritySentinel ELSE d.custom_priority[1]

\* Python's < on two (int, int, str) tuples.
TupleLess(a1, a2, a3, b1, b2, b3) ==
    \/ a1 < b1
    \/ a1 = b1 /\ a2 < b2
    \/ a1 = b1 /\ a2 = b2 /\ StrLess(a3, b3)

KnownStrategies == {"avalanche", "snowball", "entered", "custom"}

\* A mutant of key_less: avalanche sorts by APR ascending.
key_less_apr_ascending(strategy, a, b) ==
    IF strategy = "avalanche" THEN
        TupleLess(a.apr, a.balance, lower(a.creditor),
                  b.apr, b.balance, lower(b.creditor))
    ELSE IF strategy = "snowball" THEN
        TupleLess(a.balance, -a.apr, lower(a.creditor),
                  b.balance, -b.apr, lower(b.creditor))
    ELSE IF strategy = "entered" THEN a.position < b.position
    ELSE TupleLess(priority_key(a), a.balance, lower(a.creditor),
                   priority_key(b), b.balance, lower(b.creditor))

\* A mutant of key_less: the custom key has the balance before the priority.
key_less_custom_balance_first(strategy, a, b) ==
    IF strategy = "avalanche" THEN
        TupleLess(-a.apr, a.balance, lower(a.creditor),
                  -b.apr, b.balance, lower(b.creditor))
    ELSE IF strategy = "snowball" THEN
        TupleLess(a.balance, -a.apr, lower(a.creditor),
                  b.balance, -b.apr, lower(b.creditor))
    ELSE IF strategy = "entered" THEN a.position < b.position
    ELSE TupleLess(a.balance, priority_key(a), lower(a.creditor),
                   b.balance, priority_key(b), lower(b.creditor))

\* key(a) < key(b) for the sort key of each recognised strategy.
key_less(strategy, a, b) ==
    IF strategy = "avalanche" THEN
        TupleLess(-a.apr, a.balance, lower(a.creditor),
                  -b.apr, b.balance, lower(b.creditor))
    ELSE IF strategy = "snowball" THEN
        TupleLess(a.balance, -a.apr, lower(a.creditor),
                  b.balance, -b.apr, lower(b.creditor))
    ELSE IF strategy = "entered" THEN a.position < b.position
    ELSE TupleLess(priority_key(a), a.balance, lower(a.creditor),
                   priority_key(b), b.balance, lower(b.creditor))

\* list.sort(key=...) is stable: an element goes after every element whose
\* key is not greater than its own.  `sorted` holds indexes into ds.
RECURSIVE InsertByKey(_, _, _, _)
InsertByKey(strategy, ds, sorted, i) ==
    IF sorted = <<>> THEN <<i>>
    ELSE IF key_less(strategy, ds[i], ds[Head(sorted)]) THEN <<i>> \o sorted
    ELSE <<Head(sorted)>> \o InsertByKey(strategy, ds, Tail(sorted), i)

RECURSIVE SortPrefix(_, _, _)
SortPrefix(strategy, ds, n) ==
    IF n = 0 THEN <<>>
    ELSE InsertByKey(strategy, ds, SortPrefix(strategy, ds, n - 1), n)

\* A mutant of order_debts: an unknown strategy falls back to list order.
order_debts_with_fallback(strategy, ds) ==
    IF strategy \in KnownStrategies
    THEN [raised |-> FALSE, list |-> SortPrefix(strategy, ds, Len(ds))]
    ELSE [raised |-> FALSE, list |-> [i \in 1..Len(ds) |-> i]]

\* order_debts: [raised |-> TRUE] for an unknown strategy, otherwise the
\* sorted list, as the indexes of the DebtState objects in ds.
order_debts(strategy, ds) ==
    IF strategy \in KnownStrategies
    THEN [raised |-> FALSE, list |-> SortPrefix(strategy, ds, Len(ds))]
    ELSE [raised |-> TRUE, list |-> <<>>]

-----------------------------------------------------------------------------
(* run_simulation: the override maps built before the loop *)

\* schedule_overrides_map.get(m, 0): a dict comprehension keeps the last
\* row of a month.
RECURSIVE schedule_amount(_, _)
schedule_amount(rows, m) ==
    IF rows = <<>> THEN 0
    ELSE LET last == rows[Len(rows)]
         IN IF last.month_index = m THEN last.additional_amount
            ELSE schedule_amount(SubSeq(rows, 1, Len(rows) - 1), m)

\* dict[key] = value on a dict kept as the sequence of its items in
\* insertion order: an existing key keeps its place.
dict_set(items, key, value) ==
    IF \E i \in 1..Len(items) : items[i].debt_id = key
    THEN [i \in 1..Len(items) |->
            IF items[i].debt_id = key THEN [debt_id |-> key, amount |-> value]
            ELSE items[i]]
    ELSE Append(items, [debt_id |-> key, amount |-> value])

\* A mutant of overrides_for_month: the rows of the month after m are
\* applied in month m as well.
RECURSIVE overrides_for_month_and_next(_, _)
overrides_for_month_and_next(rows, m) ==
    IF rows = <<>> THEN <<>>
    ELSE LET before == overrides_for_month_and_next(SubSeq(rows, 1, Len(rows) - 1), m)
             row == rows[Len(rows)]
             amount == quantize(row.amount)
         IN IF amount < 0 \/ row.month_index \notin {m, m + 1} THEN before
            ELSE dict_set(before, row.debt_id, amount)

\* payment_override_map.get(m, {}): the items of month m in insertion
\* order; rows with a negative amount are skipped.
RECURSIVE overrides_for_month(_, _)
overrides_for_month(rows, m) ==
    IF rows = <<>> THEN <<>>
    ELSE LET before == overrides_for_month(SubSeq(rows, 1, Len(rows) - 1), m)
             row == rows[Len(rows)]
             amount == quantize(row.amount)
         IN IF amount < 0 \/ row.month_index # m THEN before
            ELSE dict_set(before, row.debt_id, amount)

-----------------------------------------------------------------------------
(* run_simulation: the phases of one month.  ds is the DebtState list;     *)
(* dicts keyed by debt id are sequences indexed like ds (ds[i].id is the   *)
(* key of entry i).                                                        *)

\* The decimal exponent of the leading digit of num / den
\* (Decimal.adjusted()), for num > 0 and den > 0.
RECURSIVE shift_to_one(_, _)
shift_to_one(num, den) ==
    IF num >= den THEN 0 ELSE 1 + shift_to_one(10 * num, den)

adjusted(num, den) ==
    IF num >= den THEN DecimalDigits(num \div den) - 1 ELSE -shift_to_one(num, den)

\* num / den rounded to an integer by the context's rounding,
\* ROUND_HALF_EVEN.
round_half_even(num, den) ==
    LET q == num \div den
        r == num % den
    IN IF 2 * r > den \/ (2 * r = den /\ (q % 2) = 1) THEN q + 1 ELSE q

\* The result of a Decimal division or multiplication whose exact value is
\* num / den (num > 0, den > 0): the value rounded to ContextPrecision
\* significant digits, as the pair <<numerator, denominator>>.
round_to_precision(num, den) ==
    LET e == adjusted(num, den)
    IN IF e < ContextPrecision
       THEN <<round_half_even(num * Pow10((ContextPrecision - 1) - e), den),
              Pow10((ContextPrecision - 1) - e)>>
       ELSE <<round_half_even(num, den * Pow10(e - (ContextPrecision - 1)))
                 * Pow10(e - (ContextPrecision - 1)), 1>>

\* |debt.balance * debt.monthly_rate()| in cents, as the code computes it:
\* the rate |apr| / 1200 rounded to 28 digits, times the balance, rounded
\* to 28 digits.
product_rounded(balance, apr) ==
    LET rate == round_to_precision(Abs(apr), 1200)
    IN round_to_precision(Abs(balance) * rate[1], rate[2])

\* The decimal exponent of the leading digit of the rate apr / 1200
\* (monthly_rate().adjusted(); apr is not 0, the sign does not matter).
rate_exponent(apr) ==
    IF Abs(apr) < 2 THEN -4
    ELSE IF Abs(apr) < 12 THEN -3
    ELSE IF Abs(apr) < 120 THEN -2
    ELSE IF Abs(apr) < 1200 THEN -1
    ELSE DecimalDigits(Abs(apr) \div 1200) - 1

\* monthly_rate(): Decimal(str(apr)) / Decimal("1200") has 28 significant
\* digits.  apr / 1200 = (apr / 3) / 400 terminates when 3 divides apr;
\* otherwise its digits end in 3s (|apr| % 3 = 1), and the rounded rate is
\* nearer to zero than apr / 1200 by a third of a unit of its last digit,
\* or in 6s (|apr| % 3 = 2), and the rounded rate is farther from zero.
rate_rounded_down(apr) == (Abs(apr) % 3) = 1

\* n \div 10^k, digit by digit.
RECURSIVE DivPow10(_, _)
DivPow10(n, k) == IF k <= 0 THEN n ELSE DivPow10(n \div 10, k - 1)

\* 2 * n > 3 * 10^e for n >= 0 and e >= 0, without forming 10^e.
above_three_halves(n, e) ==
    IF e = 0 THEN n >= 2 ELSE DivPow10(n - 1, e - 1) >= 15

\* balance * monthly_rate() lies nearer to zero than the value k.5 cents
\* that balance * apr / 1200 has exactly: the rate was rounded down and the
\* product, rounded to 28 digits in its turn (half-even), does not come back
\* to k.5, which it does when |balance| times a third of the rate's last
\* unit is at most half of the product's last unit, i.e. 2 * |balance| <=
\* 3 * 10^(exponent of the product - exponent of the rate).
product_below_half_cent(balance, apr) ==
    /\ ((Abs(balance) * Abs(apr)) % 1200) = 600
    /\ rate_rounded_down(apr)
    /\ above_three_halves(Abs(balance),
           (DecimalDigits((Abs(balance) * Abs(apr)) \div 1200) - 1) - rate_exponent(apr))

\* The number of integer digits of balance * apr / 1200 (in cents) up to
\* which the two roundings to 28 digits act only on the half-cent case: the
\* rounded product is then within 10^-7 cents of the exact one, and an
\* exact product that is not k.5 cents is at least 1/1200 cents away from
\* it.
ShortProductDigits == 18

\* |quantize(debt.balance * debt.monthly_rate())| in cents.  Up to
\* ShortProductDigits digits: balance * apr / 1200 rounded half-up, except
\* that a product pushed toward zero from k.5 cents by the rounding of the
\* rate becomes k.  Above: the 28-digit product rounded half-up.
interest_cents(balance, apr) ==
    IF DecimalDigits((Abs(balance) * Abs(apr)) \div 1200) <= ShortProductDigits
    THEN IF product_below_half_cent(balance, apr)
         THEN (Abs(balance) * Abs(apr)) \div 1200
         ELSE quantize_ratio(Abs(balance) * Abs(apr), 1200)
    ELSE LET product == product_rounded(balance, apr)
         IN quantize_ratio(product[1], product[2])

\* debt.balance * debt.monthly_rate() before it is quantized, to the cent
\* (the sign is that of the product).
interest_product(balance, apr) ==
    IF (balance < 0) # (apr < 0) THEN -interest_cents(balance, apr)
    ELSE interest_cents(balance, apr)

\* quantize(debt.balance * debt.monthly_rate()), in cents.
monthly_interest(balance, apr) == quantize(interest_product(balance, apr))

\* The interest one debt accrues this month (0 when it is skipped).
interest_for(d) ==
    IF d.balance <= 0 THEN 0 ELSE monthly_interest(d.balance, d.apr)

\* "Accrue interest first": every debt is updated independently of the others.
accrue_interest(ds) ==
    [i \in 1..Len(ds) |->
        LET interest == interest_for(ds[i])
        IN IF interest # 0
           THEN [ds[i] EXCEPT !.balance = quantize(@ + interest),
                              !.interest_paid = quantize(@ + interest)]
           ELSE ds[i]]

\* The interest loop on debt_states, walking `order` with the running
\* interest_accrued_this_month and total_interest, up to the first quantize
\* call of lines 170-175 that is given 10^28 cents or more and raises
\* decimal.InvalidOperation: what the earlier calls assigned stays
\* assigned.
RECURSIVE interest_loop(_, _, _, _)
interest_loop(order, ds, accrued, total) ==
    IF order = <<>>
    THEN [ds |-> ds, accrued |-> accrued, total |-> total, raised |-> FALSE]
    ELSE \* one debt of the loop
         CHOOSE after \in
           {IF d.balance <= 0 THEN interest_loop(Tail(order), ds, accrued, total)
            ELSE IF quantize_raises(product)
                 THEN [ds |-> ds, accrued |-> accrued, total |-> total, raised |-> TRUE]
            ELSE IF product = 0 THEN interest_loop(Tail(order), ds, accrued, total)
            ELSE IF quantize_raises(d.balance + product)
                 THEN [ds |-> ds, accrued |-> accrued, total |-> total, raised |-> TRUE]
            ELSE IF quantize_raises(d.interest_paid + product)
                 THEN [ds |-> [ds EXCEPT ![Head(order)].balance = @ + product],
                       accrued |-> accrued, total |-> total, raised |-> TRUE]
            ELSE IF quantize_raises(accrued + product)
                 THEN [ds |-> [ds EXCEPT ![Head(order)].balance = @ + product,
                                         ![Head(order)].interest_paid = @ + product],
                       accrued |-> accrued, total |-> total, raised |-> TRUE]
            ELSE IF quantize_raises(total + product)
                 THEN [ds |-> [ds EXCEPT ![Head(order)].balance = @ + product,
                                         ![Head(order)].interest_paid = @ + product],
                       accrued |-> accrued + product, total |-> total, raised |-> TRUE]
            ELSE interest_loop(Tail(order),
                     [ds EXCEPT ![Head(order)].balance = @ + product,
                                ![Head(order)].interest_paid = @ + product],
                     accrued + product, total + product)
            : <<d, product>> \in
                {<<ds[Head(order)],
                   interest_product(ds[Head(order)].balance, ds[Head(order)].apr)>>}}
           : TRUE

\* A mutant of minimum_payment_for: pays the minimum even above the balance.
minimum_payment_uncapped(d) ==
    IF d.balance <= 0 THEN 0 ELSE quantize(d.minimum_payment)

\* The payment of the minimum-payment loop for one debt (0 when skipped).
minimum_payment_for(d) ==
    IF d.balance <= 0 THEN 0 ELSE quantize(Min(d.minimum_payment, d.balance))

\* The part of the minimum a debt does not need, added to surplus_pool.
surplus_for(d) ==
    IF d.balance <= 0 THEN 0
    ELSE IF d.minimum_payment > minimum_payment_for(d)
         THEN d.minimum_payment - minimum_payment_for(d)
         ELSE 0

\* debt.balance after a payment: quantize(debt.balance - payment), floored
\* at 0; InvalidOperation when that quantize raises (the difference is
\* 10^28 cents or more: a balance grown by interest less a negative
\* payment).
balance_after(balance, payment) ==
    CHOOSE b \in {IF quantize_raises(difference) THEN InvalidOperation
                  ELSE IF quantize(difference) <= 0 THEN 0 ELSE quantize(difference)
                  : difference \in {balance - payment}} : TRUE

\* "Apply minimum payments": the loop on debt_states, walking `order`, up
\* to the first debt whose quantize(debt.balance - payment) of line 196
\* raises decimal.InvalidOperation: the balances of the debts before it
\* stay paid, its own balance and those after it stay as the interest loop
\* left them.  A minimum payment is a Numeric(12, 2) of either sign; the
\* other amounts of the loop (the payment, the surplus pool) are made of
\* amounts of the store and stay far below 10^28 cents.
RECURSIVE apply_minimums(_, _)
apply_minimums(order, ds) ==
    IF order = <<>>
    THEN [ds |-> ds, raised |-> FALSE]
    ELSE \* one debt of the loop
         CHOOSE after \in
           {IF d.balance <= 0 THEN apply_minimums(Tail(order), ds)
            ELSE IF quantize_raises(d.balance - payment)
                 THEN [ds |-> ds, raised |-> TRUE]
            ELSE apply_minimums(Tail(order),
                     [ds EXCEPT ![Head(order)].balance = balance_after(@, payment)])
            : <<d, payment>> \in
                {<<ds[Head(order)], minimum_payment_for(ds[Head(order)])>>}}
           : TRUE

\* A mutant of snowball_next: the pool is not reduced by what was paid.
snowball_next_pool_not_reduced(st, i) ==
    IF st.ds[i].balance <= 0 THEN st
    ELSE LET payment == quantize(Min(st.remaining, st.ds[i].balance))
         IN IF payment <= 0 THEN st
            ELSE [ds |-> [st.ds EXCEPT ![i].balance = balance_after(@, payment)],
                  pay |-> [st.pay EXCEPT ![i] = quantize(@ + payment)],
                  remaining |-> st.remaining]

\* A mutant of snowball_next: a debt takes only half of what the pool could
\* pay it, the rest moves on to the next debt.
snowball_next_half(st, i) ==
    IF st.ds[i].balance <= 0 THEN st
    ELSE LET payment == quantize((Min(st.remaining, st.ds[i].balance) + 1) \div 2)
         IN IF payment <= 0 THEN st
            ELSE [ds |-> [st.ds EXCEPT ![i].balance = balance_after(@, payment)],
                  pay |-> [st.pay EXCEPT ![i] = quantize(@ + payment)],
                  remaining |-> quantize(st.remaining - payment)]

\* One iteration of the snowball loop on debt i (remaining pool > 0).
snowball_next(st, i) ==
    IF st.ds[i].balance <= 0 THEN st
    ELSE LET payment == quantize(Min(st.remaining, st.ds[i].balance))
         IN IF payment <= 0 THEN st
            ELSE [ds |-> [st.ds EXCEPT ![i].balance = balance_after(@, payment)],
                  pay |-> [st.pay EXCEPT ![i] = quantize(@ + payment)],
                  remaining |-> quantize(st.remaining - payment)]

\* "Apply snowball payments to current targets": walk `order`, stop when
\* the pool is used up.
RECURSIVE apply_snowball(_, _)
apply_snowball(order, st) ==
    IF order = <<>> THEN st
    ELSE IF st.remaining <= 0 THEN st
    ELSE apply_snowball(Tail(order), snowball_next(st, Head(order)))

\* The entry of debt_id in a dict keyed by debt id, 0 when it has none.
index_of_id(ds, debt_id) ==
    IF \E i \in 1..Len(ds) : ds[i].id = debt_id
    THEN CHOOSE i \in 1..Len(ds) : ds[i].id = debt_id
    ELSE 0

CappedWarning(debt_id) ==
    [kind |-> "capped", debt_id |-> debt_id, amount |-> money_str(0)]

ExcessWarning(excess_amount) ==
    [kind |-> "excess", debt_id |-> 0, amount |-> money_str(excess_amount)]

UnallocatedWarning ==
    [kind |-> "unallocated", debt_id |-> 0, amount |-> money_str(0)]

\* A mutant of override_next: the override is not capped at the balance.
override_next_uncapped(st, ds, ceilings, item) ==
    LET i == index_of_id(ds, item.debt_id)
    IN IF i = 0 THEN st
       ELSE [final |-> [st.final EXCEPT ![i] = quantize(item.amount)],
             warnings |-> st.warnings]

\* A mutant of override_next: what an override releases or takes is moved
\* to the next debt of the list.
override_next_reallocating(st, ds, ceilings, item) ==
    LET i == index_of_id(ds, item.debt_id)
        j == (i % Len(ds)) + 1
    IN IF i = 0 THEN st
       ELSE LET capped_amount == Min(ceilings[i], item.amount)
                moved == st.final[i] - capped_amount
            IN [final |-> [k \in 1..Len(ds) |->
                             IF k = i THEN quantize(capped_amount)
                             ELSE IF k = j THEN Max(st.final[k] + moved, 0)
                             ELSE st.final[k]],
                warnings |-> IF item.amount > ceilings[i]
                             THEN Append(st.warnings, CappedWarning(item.debt_id))
                             ELSE st.warnings]

\* A mutant of override_next: a debt that was paid nothing by default is
\* left alone.
override_next_skips_unpaid(st, ds, ceilings, item) ==
    LET i == index_of_id(ds, item.debt_id)
    IN IF i = 0 THEN st
       ELSE IF st.final[i] = 0 THEN st
       ELSE LET balance_cap == ceilings[i]
                capped_amount == Min(balance_cap, item.amount)
            IN [final |-> [st.final EXCEPT ![i] = quantize(capped_amount)],
                warnings |-> IF item.amount > balance_cap
                             THEN Append(st.warnings, CappedWarning(item.debt_id))
                             ELSE st.warnings]

\* One iteration of the loop over overrides_for_month.items().
override_next(st, ds, ceilings, item) ==
    LET i == index_of_id(ds, item.debt_id)
    IN IF i = 0 THEN st
       ELSE LET balance_cap == ceilings[i]
                capped_amount == Min(balance_cap, item.amount)
            IN [final |-> [st.final EXCEPT ![i] = quantize(capped_amount)],
                warnings |-> IF item.amount > balance_cap
                             THEN Append(st.warnings, CappedWarning(item.debt_id))
                             ELSE st.warnings]

\* The payment-override loop: st is [final, warnings].
RECURSIVE apply_payment_overrides(_, _, _, _)
apply_payment_overrides(st, ds, ceilings, items) ==
    IF items = <<>> THEN st
    ELSE apply_payment_overrides(override_next(st, ds, ceilings, Head(items)),
                                 ds, ceilings, Tail(items))

\* A mutant of total_warnings: reports the total of the final payments.
total_warnings_reports_total(total_default, total_final) ==
    IF total_final > total_default THEN <<ExcessWarning(total_final)>>
    ELSE IF total_final < total_default THEN <<UnallocatedWarning>>
    ELSE <<>>

\* The warnings from comparing total_final with total_default.
total_warnings(total_default, total_final) ==
    IF total_final > total_default THEN
        LET excess_amount == quantize(total_final - total_default)
        IN IF excess_amount > 0 THEN <<ExcessWarning(excess_amount)>> ELSE <<>>
    ELSE IF total_final < total_default THEN
        LET deficit == quantize(total_default - total_final)
        IN IF deficit > 0 THEN <<UnallocatedWarning>> ELSE <<>>
    ELSE <<>>

\* A mutant of settle_balances: the balances the default payments left are
\* kept, the final payments are not applied.
settle_balances_keeps_default(ds_paid, ceilings, payments, paid, month) ==
    [i \in 1..Len(ds_paid) |->
        IF ds_paid[i].balance <= 0 /\ ds_paid[i].id \notin paid
        THEN [ds_paid[i] EXCEPT !.balance = 0, !.payoff_month_index = <<month>>]
        ELSE ds_paid[i]]

\* A mutant of settle_balances: the payoff month is recorded in every month
\* that ends with the debt at zero.
settle_balances_recloses(ds_paid, ceilings, payments, paid, month) ==
    [i \in 1..Len(ds_paid) |->
        LET b == quantize(ceilings[i] - payments[i])
        IN IF b <= 0
           THEN [ds_paid[i] EXCEPT !.balance = 0, !.payoff_month_index = <<month>>]
           ELSE [ds_paid[i] EXCEPT !.balance = b]]

\* A mutant of settle_balances: the final payment is added to the
\* post-interest balance.
settle_balances_adds_payment(ds_paid, ceilings, payments, paid, month) ==
    [i \in 1..Len(ds_paid) |->
        LET b == quantize(ceilings[i] + payments[i])
        IN IF b <= 0
           THEN IF ds_paid[i].id \notin paid
                THEN [ds_paid[i] EXCEPT !.balance = 0,
                                        !.payoff_month_index = <<month>>]
                ELSE [ds_paid[i] EXCEPT !.balance = 0]
           ELSE [ds_paid[i] EXCEPT !.balance = b]]

\* The loop that applies the final payments: each balance restarts from its
\* post-interest value; a debt at zero that is not in paid_ids is closed.
settle_balances(ds_paid, ceilings, payments, paid, month) ==
    [i \in 1..Len(ds_paid) |->
        LET b == quantize(ceilings[i] - payments[i])
        IN IF b <= 0
           THEN IF ds_paid[i].id \notin paid
                THEN [ds_paid[i] EXCEPT !.balance = 0,
                                        !.payoff_month_index = <<month>>]
                ELSE [ds_paid[i] EXCEPT !.balance = 0]
           ELSE [ds_paid[i] EXCEPT !.balance = b]]

\* A mutant of newly_closed: paid_ids is not consulted, a debt at zero frees
\* its minimum in every month.
newly_closed_every_month(ds_paid, ceilings, payments, paid) ==
    {i \in 1..Len(ds_paid) : quantize(ceilings[i] - payments[i]) <= 0}

\* A mutant of newly_closed: no debt is ever reported closed, so no minimum
\* is freed.
newly_closed_never(ds_paid, ceilings, payments, paid) == {}

\* The debts that loop closes this month.
newly_closed(ds_paid, ceilings, payments, paid) ==
    {i \in 1..Len(ds_paid) :
        quantize(ceilings[i] - payments[i]) <= 0 /\ ds_paid[i].id \notin paid}

-----------------------------------------------------------------------------
(* Inputs *)

MaxMonths == 600

\* Bounds of the input space: the number of debts of a run and the latest
\* month an override is registered for.
MaxDebts == 2

MaxOverrideMonth == 2

\* The number of debts of the runs that exercise the ordering policy.
MaxOrderDebts == 3

Name(c) == <<c>>

\* "Loan A" and "Loan B"
LoanAName == <<76, 111, 97, 110, 32, 65>>

LoanBName == <<76, 111, 97, 110, 32, 66>>

\* Debt rows without their id; amounts are in cents.
LoanA ==
    [creditor |-> LoanAName, balance |-> 10000, apr |-> 12,
     minimum_payment |-> 5000, custom_priority |-> <<>>, position |-> 0]

LoanB ==
    [creditor |-> LoanBName, balance |-> 20000, apr |-> 6,
     minimum_payment |-> 2500, custom_priority |-> <<>>, position |-> 1]

\* A debt whose minimum payment is below its monthly interest.
LoanC ==
    [creditor |-> Name(99), balance |-> 20000, apr |-> 24,
     minimum_payment |-> 100, custom_priority |-> <<>>, position |-> 2]

\* A debt that is already paid when the run starts.
LoanD ==
    [creditor |-> Name(68), balance |-> 0, apr |-> 18,
     minimum_payment |-> 2500, custom_priority |-> <<10000>>, position |-> 3]

DebtProfiles == {LoanA, LoanB, LoanC, LoanD}

\* The stored budget is not validated: the sum of the minimums of LoanA and
\* LoanB, a larger budget, and a negative one.
Budgets == {-100, 7500, 20000}

Strategies == KnownStrategies \cup {"Avalanche", "highest_first"}

BalanceDates == {[year |-> 2024, month |-> 1, day |-> 1]}

\* The store holds schedule overrides with an additional amount >= 0 only
\* (the API refuses a negative one).
ScheduleAmounts == {5000}

\* Payment override amounts (the bulk upsert refuses a negative one): no
\* payment, a payment below every minimum, and one above every balance of
\* LoanA.
PaymentAmounts == {0, 100, 15000}

SeqsUpTo(S, n) == UNION {[1..k -> S] : k \in 0..n}

\* A Debt row: the profile with the id the store gave it.
WithId(profile, id) ==
    [id |-> id, creditor |-> profile.creditor, balance |-> profile.balance,
     apr |-> profile.apr, minimum_payment |-> profile.minimum_payment,
     custom_priority |-> profile.custom_priority, position |-> profile.position]

\* session.query(Debt).order_by(Debt.position): the lists of at most n rows
\* made from the profiles, in ascending order of position, with the ids
\* 1, 2, ... in list order.
DebtListsOf(profiles, n) ==
    {[i \in 1..Len(ps) |-> WithId(ps[i], i)] :
        ps \in {qs \in SeqsUpTo(profiles, n) :
                  \A i \in 1..(Len(qs) - 1) : qs[i].position <= qs[i + 1].position}}

DebtLists == DebtListsOf(DebtProfiles, MaxDebts)

ScheduleOverrideRows ==
    [month_index : 1..MaxOverrideMonth, additional_amount : ScheduleAmounts]

PaymentOverrideRows ==
    [month_index : 1..MaxOverrideMonth, debt_id : 1..MaxDebts, amount : PaymentAmounts]

NoResult == <<>>

InitRun ==
    /\ pc = "start"
    /\ error = "none"
    /\ debt_states = <<>>
    /\ ordered_ids_initial = <<>>
    /\ min_payment_sum = 0
    /\ monthly_budget = 0
    /\ initial_snowball = 0
    /\ freed_minimums = 0
    /\ total_interest = 0
    /\ paid_ids = {}
    /\ month_index = 0
    /\ date_cursor = settings.balance_date
    /\ months_output = <<>>
    /\ ordered_states = <<>>
    /\ balances_after_interest = <<>>
    /\ result = NoResult

\* No payment override, or one row.
SinglePaymentOverrides == {<<>>} \cup {<<row>> : row \in PaymentOverrideRows}

\* One row for every debt id, all for month 1 (a bulk upsert of that month),
\* in the order of the store's query (month_index, debt_id).
BulkPaymentOverrides ==
    {[d \in 1..MaxDebts |-> [month_index |-> 1, debt_id |-> d, amount |-> amounts[d]]] :
        amounts \in [1..MaxDebts -> PaymentAmounts]}

\* The inputs of a run: schedule overrides alone, one payment override
\* alone, or a bulk of payment overrides for month 1.
Init ==
    /\ settings \in [balance_date : BalanceDates, monthly_budget : Budgets,
                     strategy : Strategies]
    /\ debts \in DebtLists
    /\ \/ /\ schedule_overrides \in SeqsUpTo(ScheduleOverrideRows, 1)
          /\ payment_overrides = <<>>
       \/ /\ schedule_overrides = <<>>
          /\ payment_overrides \in SinglePaymentOverrides \ {<<>>}
       \/ /\ Len(debts) = MaxDebts
          /\ schedule_overrides = <<>>
          /\ payment_overrides \in BulkPaymentOverrides
    /\ InitRun

\* A debt whose minimum payment never covers its monthly interest.
LoanNeverCovered ==
    [creditor |-> Name(78), balance |-> 100000, apr |-> 3,
     minimum_payment |-> 100, custom_priority |-> <<>>, position |-> 0]

\* Inputs of runs that last about MaxMonths months: one interest-free debt
\* paid off one cent a month, or one debt that is paid less than its
\* interest every month; with or without a payment override of 0.00 for
\* month 1.
InitLong ==
    /\ \/ /\ settings \in [balance_date : BalanceDates, monthly_budget : {1},
                            strategy : {"avalanche"}]
          /\ debts \in {<<[id |-> 1, creditor |-> Name(65), balance |-> b, apr |-> 0,
                           minimum_payment |-> 1, custom_priority |-> <<>>,
                           position |-> 0]>> : b \in (MaxMonths - 2)..(MaxMonths + 1)}
       \/ /\ settings \in [balance_date : BalanceDates, monthly_budget : {100},
                            strategy : {"avalanche"}]
          /\ debts = <<WithId(LoanNeverCovered, 1)>>
    /\ schedule_overrides = <<>>
    /\ payment_overrides \in
          {<<>>, <<[month_index |-> 1, debt_id |-> 1, amount |-> 0]>>}
    /\ InitRun

\* A debt without a minimum payment: it is paid by default only from the
\* pool.
LoanZeroMin ==
    [creditor |-> Name(90), balance |-> 20000, apr |-> 6,
     minimum_payment |-> 0, custom_priority |-> <<>>, position |-> 4]

OverrideProfiles == {LoanA, LoanZeroMin, LoanD}

\* The minimum of LoanA alone (an empty pool) and the budget of Budgets
\* that leaves a pool.
OverrideBudgets == {5000, 7500}

\* Inputs of the runs in which a payment override meets a debt that the
\* default allocation paid nothing: at most one payment override row, for
\* an id that may be missing from the list.
InitOverride ==
    /\ settings \in [balance_date : BalanceDates, monthly_budget : OverrideBudgets,
                     strategy : {"avalanche", "entered"}]
    /\ debts \in DebtListsOf(OverrideProfiles, MaxDebts)
    /\ schedule_overrides = <<>>
    /\ payment_overrides \in SinglePaymentOverrides
    /\ InitRun

\* Debts whose first monthly interest is exactly half a cent above a whole
\* number of cents, at an APR that 3 does not divide: 6.00 at 13% (6.5
\* cents) and 16.50 at 4% (5.5 cents).
LoanThirteen ==
    [creditor |-> Name(84), balance |-> 600, apr |-> 13,
     minimum_payment |-> 100, custom_priority |-> <<>>, position |-> 5]

LoanFour ==
    [creditor |-> Name(70), balance |-> 1650, apr |-> 4,
     minimum_payment |-> 100, custom_priority |-> <<>>, position |-> 6]

InterestProfiles == {LoanA, LoanB, LoanThirteen, LoanFour}

InterestBudgets == {7500}

\* Inputs of the runs that exercise the rounding of the interest: no
\* overrides.
InitInterest ==
    /\ settings \in [balance_date : BalanceDates, monthly_budget : InterestBudgets,
                     strategy : KnownStrategies]
    /\ debts \in DebtListsOf(InterestProfiles, MaxDebts) \ {<<>>}
    /\ schedule_overrides = <<>>
    /\ payment_overrides = <<>>
    /\ InitRun

\* The latest month an override is registered for in the runs that carry
\* both kinds of override (LoanA and LoanB at the budget of their minimums
\* take five months).
MaxLaterMonth == 4

LaterScheduleRows ==
    [month_index : 1..MaxLaterMonth, additional_amount : ScheduleAmounts]

LaterPaymentRows ==
    [month_index : 1..MaxLaterMonth, debt_id : 1..MaxDebts, amount : PaymentAmounts]

\* Inputs of the runs that carry a schedule override and a payment override
\* together, for the same or for different months.
InitBothOverrides ==
    /\ settings \in [balance_date : BalanceDates, monthly_budget : {7500, 20000},
                     strategy : {"avalanche", "snowball"}]
    /\ debts \in DebtListsOf({LoanA, LoanB}, MaxDebts) \ {<<>>}
    /\ schedule_overrides \in SeqsUpTo(LaterScheduleRows, 1)
    /\ payment_overrides \in {<<>>} \cup {<<row>> : row \in LaterPaymentRows}
    /\ InitRun

\* Balance dates at the end of a month, before a short month or the end of
\* the year, in leap and common years.
EndOfMonthDates ==
    {[year |-> 2023, month |-> 1, day |-> 31],
     [year |-> 2024, month |-> 1, day |-> 31],
     [year |-> 2023, month |-> 11, day |-> 30],
     [year |-> 2023, month |-> 12, day |-> 31],
     [year |-> 2024, month |-> 3, day |-> 15],
     [year |-> MaxYear, month |-> 11, day |-> 30]}

\* Inputs of the runs that exercise the dates of the months: no overrides.
InitDates ==
    /\ settings \in [balance_date : EndOfMonthDates, monthly_budget : {7500},
                     strategy : {"avalanche", "entered"}]
    /\ debts \in DebtListsOf({LoanA, LoanB}, MaxDebts) \ {<<>>}
    /\ schedule_overrides = <<>>
    /\ payment_overrides = <<>>
    /\ InitRun

\* Debt rows that meet in the sort keys: OrderB and OrderC differ in the
\* creditor name only ("b" and "C", so that the case matters), OrderA has
\* their APR, a larger balance and a larger minimum (so that it overtakes
\* them during a run); the custom priorities are equal, missing, and above
\* the value the custom key gives a missing one; positions are not in the
\* order of any other key.
OrderB ==
    [creditor |-> Name(98), balance |-> 10000, apr |-> 12,
     minimum_payment |-> 1000, custom_priority |-> <<2>>, position |-> 3]

OrderC ==
    [creditor |-> Name(67), balance |-> 10000, apr |-> 12,
     minimum_payment |-> 1000, custom_priority |-> <<2>>, position |-> 0]

OrderA ==
    [creditor |-> Name(97), balance |-> 12000, apr |-> 12,
     minimum_payment |-> 5000, custom_priority |-> <<>>, position |-> 5]

OrderD ==
    [creditor |-> Name(100), balance |-> 5000, apr |-> 6,
     minimum_payment |-> 1000, custom_priority |-> <<10000>>, position |-> 1]

OrderE ==
    [creditor |-> Name(69), balance |-> 20000, apr |-> 24,
     minimum_payment |-> 1000, custom_priority |-> <<1>>, position |-> 4]

OrderF ==
    [creditor |-> Name(102), balance |-> 10000, apr |-> 6,
     minimum_payment |-> 1000, custom_priority |-> <<>>, position |-> 2]

\* Two rows that differ in the creditor name only, "\u00c9" and "\u00e0":
\* lowered, the second name sorts first; as written, the first.
OrderG ==
    [creditor |-> Name(201), balance |-> 7000, apr |-> 18,
     minimum_payment |-> 1000, custom_priority |-> <<3>>, position |-> 6]

OrderH ==
    [creditor |-> Name(224), balance |-> 7000, apr |-> 18,
     minimum_payment |-> 1000, custom_priority |-> <<3>>, position |-> 7]

OrderProfiles == {OrderA, OrderB, OrderC, OrderD, OrderE, OrderF, OrderG, OrderH}

OrderBudgets == {10000}

\* Inputs of the runs that exercise the ordering policy: every recognised
\* strategy, no overrides.
InitOrder ==
    /\ settings \in [balance_date : BalanceDates, monthly_budget : OrderBudgets,
                     strategy : KnownStrategies]
    /\ debts \in DebtListsOf(OrderProfiles, MaxOrderDebts) \ {<<>>}
    /\ schedule_overrides = <<>>
    /\ payment_overrides = <<>>
    /\ InitRun

-----------------------------------------------------------------------------
(* run_simulation *)

\* DebtState(...) for one Debt row.
new_debt_state(debt) ==
    [id |-> debt.id, creditor |-> debt.creditor,
     balance |-> quantize(debt.balance),
     initial_balance |-> quantize(debt.balance),
     apr |-> debt.apr,
     minimum_payment |-> quantize(debt.minimum_payment),
     custom_priority |-> debt.custom_priority,
     position |-> debt.position,
     interest_paid |-> 0,
     payoff_month_index |-> <<>>]

EmptyResult ==
    [months |-> <<>>, debts |-> <<>>,
     totals |-> [totalInterest |-> money_str(0), totalMonths |-> 0,
                 minPaymentsSum |-> money_str(0),
                 initialSnowball |-> money_str(0)]]

\* A mutant of no_debts: the empty list is not short-circuited.
no_debts_never(states) == FALSE

\* `if not debt_states`
no_debts(states) == states = <<>>

\* A mutant of budget_insufficient: a budget equal to the minimums is refused.
budget_insufficient_or_equal(budget, min_sum) == budget <= min_sum

\* The pre-run validation of the budget.
budget_insufficient(budget, min_sum) == budget < min_sum

\* run_simulation up to the first test of the loop condition.
Start ==
    /\ pc = "start"
    /\ LET states == [i \in 1..Len(debts) |-> new_debt_state(debts[i])]
           min_sum == quantize(SumSeq([i \in 1..Len(states) |-> states[i].minimum_payment]))
           budget == quantize(settings.monthly_budget)
           ordered == order_debts(settings.strategy, states)
       IN /\ debt_states' = states
          /\ IF no_debts(states) THEN
                /\ pc' = "returned"
                /\ result' = EmptyResult
                /\ UNCHANGED <<error, min_payment_sum, monthly_budget,
                               ordered_ids_initial, initial_snowball, month_index,
                               ordered_states>>
             ELSE IF budget_insufficient(budget, min_sum) THEN
                /\ pc' = "error"
                /\ error' = "insufficient_budget"
                /\ min_payment_sum' = min_sum
                /\ monthly_budget' = budget
                /\ UNCHANGED <<result, ordered_ids_initial, initial_snowball,
                               month_index, ordered_states>>
             ELSE IF ordered.raised THEN
                /\ pc' = "error"
                /\ error' = "unknown_strategy"
                /\ min_payment_sum' = min_sum
                /\ monthly_budget' = budget
                /\ UNCHANGED <<result, ordered_ids_initial, initial_snowball,
                               month_index, ordered_states>>
             ELSE
                /\ pc' = "loop"
                /\ min_payment_sum' = min_sum
                /\ monthly_budget' = budget
                /\ ordered_ids_initial' =
                       [k \in 1..Len(ordered.list) |-> states[ordered.list[k]].id]
                /\ ordered_states' = ordered.list
                /\ initial_snowball' = quantize(Max(budget - min_sum, 0))
                /\ month_index' = 1
                /\ UNCHANGED <<error, result>>
    /\ UNCHANGED <<inputs, freed_minimums, total_interest, paid_ids, date_cursor,
                   months_output, balances_after_interest>>

\* A mutant of any_balance_open: only the first debt is looked at.
any_balance_open_first_only(ds) == ds[1].balance > 0

\* any(d.balance > 0 for d in debt_states)
any_balance_open(ds) == \E i \in 1..Len(ds) : ds[i].balance > 0

\* A mutant of exceeded_limit: the guard is not enforced.
exceeded_limit_never(next_month_index) == FALSE

\* A mutant of exceeded_limit: the guard acts five months late.
exceeded_limit_late(next_month_index) == next_month_index > MaxMonths + 5

\* The safety guard at the end of the loop body.
exceeded_limit(next_month_index) == next_month_index > MaxMonths

\* A mutant of month_order: the order computed before the loop is used in
\* every month.
month_order_initial(strategy, ds, ids_initial) ==
    [k \in 1..Len(ids_initial) |-> index_of_id(ds, ids_initial[k])]

\* A mutant of advance_date_cursor: the next date is one month after the
\* current (possibly clamped) date.
advance_date_cursor_from_cursor(balance_date, cursor, next_month_index) ==
    add_months(cursor, 1)

\* `date_cursor = add_months(balance_date, month_index - 1)` after
\* month_index was incremented.
advance_date_cursor(balance_date, cursor, next_month_index) ==
    add_months(balance_date, next_month_index - 1)

\* `ordered_states = order_debts(strategy, debt_states)` at the start of
\* the loop body.
month_order(strategy, ds, ids_initial) == order_debts(strategy, ds).list

\* One iteration of the while loop: the loop condition held.  Each local of
\* the loop body is bound once, in the order the body assigns it
\* (\E x \in {e} binds x to the value of e).  An iteration whose interest
\* loop or minimum-payment loop raises decimal.InvalidOperation ends the
\* run with that exception, with the order, the interest, the post-interest
\* balances and the payments assigned up to there, and records no month.
\* The later payments of the month cannot raise: a snowball payment is
\* positive, and a final payment is at least the minimum part paid at line
\* 196 or an override amount, which is not negative, so the differences of
\* lines 219 and 266 are at most the one line 196 quantized.
SimulateMonth ==
    /\ pc = "loop"
    /\ any_balance_open(debt_states)
    /\ \E order \in {month_order(settings.strategy, debt_states, ordered_ids_initial)} :
       \E accrual \in {interest_loop(order, debt_states, 0, total_interest)} :
       IF accrual.raised
       THEN /\ pc' = "error"
            /\ error' = "invalid_operation"
            /\ ordered_states' = order
            /\ debt_states' = accrual.ds
            /\ total_interest' = accrual.total
            /\ UNCHANGED <<freed_minimums, paid_ids, month_index, date_cursor,
                           months_output, balances_after_interest>>
       ELSE
       \E ds_interest \in {accrue_interest(debt_states)} :
       \E ceilings \in {[i \in 1..Len(debt_states) |-> quantize(ds_interest[i].balance)]} :
       \E additional_amount \in {schedule_amount(schedule_overrides, month_index)} :
       \E available_pool \in {quantize((initial_snowball + freed_minimums) + additional_amount)} :
       \E minimums \in {apply_minimums(order, ds_interest)} :
       IF minimums.raised
       THEN /\ pc' = "error"
            /\ error' = "invalid_operation"
            /\ ordered_states' = order
            /\ balances_after_interest' = ceilings
            /\ debt_states' = minimums.ds
            /\ total_interest' = accrual.total
            /\ UNCHANGED <<freed_minimums, paid_ids, month_index, date_cursor,
                           months_output>>
       ELSE
       \E after_snowball \in {apply_snowball(order,
               [ds |-> minimums.ds,
                pay |-> [i \in 1..Len(debt_states) |-> quantize(minimum_payment_for(ds_interest[i]))],
                remaining |-> quantize(available_pool + quantize(SumSeq([i \in 1..Len(debt_states) |-> surplus_for(ds_interest[i])])))])} :
       \E default_payments \in {[i \in 1..Len(debt_states) |-> quantize(after_snowball.pay[i])]} :
       \E overridden \in {apply_payment_overrides(
                   [final |-> default_payments, warnings |-> <<>>],
                   debt_states, ceilings,
                   overrides_for_month(payment_overrides, month_index))} :
       \E payments_this_month \in {[i \in 1..Len(debt_states) |-> quantize(overridden.final[i])]} :
       \E closed \in {newly_closed(after_snowball.ds, ceilings, payments_this_month, paid_ids)} :
       \E settled \in {settle_balances(after_snowball.ds, ceilings, payments_this_month, paid_ids, month_index)} :
       LET n == Len(debt_states)
           interest_accrued_this_month ==
               quantize(SumSeq([i \in 1..n |-> interest_for(debt_states[i])]))
           total_default == quantize(SumFn(default_payments))
           total_final == quantize(SumFn(overridden.final))
           month_warnings ==
               overridden.warnings \o total_warnings(total_default, total_final)
           newly_freed ==
               quantize(SumSeq([i \in 1..n |->
                   IF i \in closed THEN debt_states[i].minimum_payment ELSE 0]))
           record ==
               [monthIndex |-> month_index,
                monthLabel |-> month_label(date_cursor),
                dateISO |-> date_cursor,
                interestAccrued |-> money_str(interest_accrued_this_month),
                snowballAmount |-> money_str(available_pool),
                additionalAmount |-> money_str(additional_amount),
                defaultPayments |-> [i \in 1..n |-> money_str(default_payments[i])],
                payments |-> [i \in 1..n |-> money_str(payments_this_month[i])],
                remainingBalances |-> [i \in 1..n |-> money_str(settled[i].balance)],
                paymentOverrideWarnings |-> month_warnings]
       IN /\ ordered_states' = order
          /\ balances_after_interest' = ceilings
          /\ total_interest' = quantize(total_interest + interest_accrued_this_month)
          /\ debt_states' = settled
          /\ paid_ids' = paid_ids \cup {debt_states[i].id : i \in closed}
          /\ months_output' = Append(months_output, record)
          /\ freed_minimums' = quantize(freed_minimums + newly_freed)
          /\ month_index' = month_index + 1
          /\ \E next_date \in {advance_date_cursor(settings.balance_date, date_cursor,
                                                     month_index + 1)} :
                IF next_date.raised
                THEN /\ pc' = "error"
                     /\ error' = "date_out_of_range"
                     /\ UNCHANGED date_cursor
                ELSE /\ date_cursor' = next_date.date
                     /\ IF exceeded_limit(month_index + 1)
                        THEN pc' = "error" /\ error' = "exceeded"
                        ELSE UNCHANGED <<pc, error>>
    /\ UNCHANGED <<inputs, ordered_ids_initial, min_payment_sum, monthly_budget,
                   initial_snowball, result>>

\* The summary of one debt, built after the loop.
debt_summary(debt, total_months, balance_date) ==
    [id |-> debt.id,
     creditor |-> debt.creditor,
     initialBalance |-> money_str(debt.initial_balance),
     interestPaid |-> money_str(debt.interest_paid),
     monthsToPayoff |-> IF debt.payoff_month_index # <<>>
                        THEN debt.payoff_month_index[1] ELSE total_months,
     payoffMonthLabel |->
         IF debt.payoff_month_index # <<>>
         THEN <<month_label(add_months(balance_date, debt.payoff_month_index[1] - 1).date)>>
         ELSE <<>>]

\* The payoff date of a summary cannot be built: add_months raises.
payoff_month_raises(debt, balance_date) ==
    /\ debt.payoff_month_index # <<>>
    /\ add_months(balance_date, debt.payoff_month_index[1] - 1).raised

\* A mutant of summary_order: the summaries follow the order of the latest
\* month.
summary_order_latest(ids_initial, ds, latest) ==
    IF latest = <<>> THEN ids_initial
    ELSE [k \in 1..Len(latest) |-> ds[latest[k]].id]

\* `for debt_id in ordered_ids_initial`: the order of the summaries.
summary_order(ids_initial, ds, latest) == ids_initial

\* The loop condition failed: build the summaries and return.
Finish ==
    /\ pc = "loop"
    /\ ~any_balance_open(debt_states)
    /\ LET total_months == month_index - 1
           ids == summary_order(ordered_ids_initial, debt_states, ordered_states)
       IN IF \E k \in 1..Len(ids) :
                payoff_month_raises(debt_states[index_of_id(debt_states, ids[k])],
                                    settings.balance_date)
          THEN /\ pc' = "error"
               /\ error' = "date_out_of_range"
               /\ UNCHANGED result
          ELSE /\ pc' = "returned"
               /\ UNCHANGED error
               /\ result' =
                    [months |-> months_output,
                     debts |-> [k \in 1..Len(ids) |->
                                  debt_summary(
                                      debt_states[index_of_id(debt_states, ids[k])],
                                      total_months, settings.balance_date)],
                     totals |-> [totalInterest |-> money_str(total_interest),
                                 totalMonths |-> total_months,
                                 minPaymentsSum |-> money_str(min_payment_sum),
                                 minimumMonthlyPayment |-> money_str(min_payment_sum),
                                 initialSnowball |-> money_str(initial_snowball)]]
    /\ UNCHANGED <<inputs, debt_states, ordered_ids_initial, min_payment_sum,
                   monthly_budget, initial_snowball, freed_minimums, total_interest,
                   paid_ids, month_index, date_cursor, months_output, ordered_states,
                   balances_after_interest>>

Next == Start \/ SimulateMonth \/ Finish

Spec == Init /\ [][Next]_vars

SpecLong == InitLong /\ [][Next]_vars

SpecOrder == InitOrder /\ [][Next]_vars

SpecOverride == InitOverride /\ [][Next]_vars

SpecInterest == InitInterest /\ [][Next]_vars

SpecBothOverrides == InitBothOverrides /\ [][Next]_vars

SpecDates == InitDates /\ [][Next]_vars

\* run_simulation as a function of its arguments: the locals of the run
\* after the code before the loop, with pc and error as in Start.
before_loop(run_settings, run_debts) ==
    LET states == [i \in 1..Len(run_debts) |-> new_debt_state(run_debts[i])]
        min_sum == quantize(SumSeq([i \in 1..Len(states) |-> states[i].minimum_payment]))
        budget == quantize(run_settings.monthly_budget)
        ordered == order_debts(run_settings.strategy, states)
        entered == ~no_debts(states) /\ ~budget_insufficient(budget, min_sum)
                   /\ ~ordered.raised
    IN [pc |-> IF no_debts(states) THEN "returned"
               ELSE IF entered THEN "loop" ELSE "error",
        error |-> IF no_debts(states) THEN "none"
                  ELSE IF budget_insufficient(budget, min_sum) THEN "insufficient_budget"
                  ELSE IF ordered.raised THEN "unknown_strategy"
                  ELSE "none",
        debt_states |-> states,
        ordered_ids_initial |->
            IF entered
            THEN [k \in 1..Len(ordered.list) |-> states[ordered.list[k]].id]
            ELSE <<>>,
        initial_snowball |-> IF entered THEN quantize(Max(budget - min_sum, 0)) ELSE 0,
        freed_minimums |-> 0,
        total_interest |-> 0,
        paid_ids |-> {},
        month_index |-> IF entered THEN 1 ELSE 0,
        date_cursor |-> run_settings.balance_date,
        months_output |-> <<>>]

\* One iteration of the while loop on the locals `run`, with the override
\* rows the run was called with.  The iteration ends with pc "error" when
\* it raised: decimal.InvalidOperation in the interest loop or in the
\* minimum-payment loop, before the month is recorded, or, after it, the
\* ValueError of date() or the
\* SimulationError of the safety guard.
loop_body(run, run_settings, schedule_rows, payment_rows) ==
    LET n == Len(run.debt_states)
        order == month_order(run_settings.strategy, run.debt_states, run.ordered_ids_initial)
        accrual == interest_loop(order, run.debt_states, 0, run.total_interest)
        next_date == advance_date_cursor(run_settings.balance_date, run.date_cursor,
                                         run.month_index + 1)
        ds_interest == accrue_interest(run.debt_states)
        ceilings == [i \in 1..n |-> quantize(ds_interest[i].balance)]
        additional_amount == schedule_amount(schedule_rows, run.month_index)
        available_pool ==
            quantize((run.initial_snowball + run.freed_minimums) + additional_amount)
        minimums == apply_minimums(order, ds_interest)
        after_snowball ==
            apply_snowball(order,
                [ds |-> minimums.ds,
                 pay |-> [i \in 1..n |-> quantize(minimum_payment_for(ds_interest[i]))],
                 remaining |-> quantize(available_pool
                     + quantize(SumSeq([i \in 1..n |-> surplus_for(ds_interest[i])])))])
        default_payments == [i \in 1..n |-> quantize(after_snowball.pay[i])]
        overridden ==
            apply_payment_overrides([final |-> default_payments, warnings |-> <<>>],
                                    run.debt_states, ceilings,
                                    overrides_for_month(payment_rows, run.month_index))
        payments_this_month == [i \in 1..n |-> quantize(overridden.final[i])]
        closed == newly_closed(after_snowball.ds, ceilings, payments_this_month, run.paid_ids)
        settled == settle_balances(after_snowball.ds, ceilings, payments_this_month,
                                   run.paid_ids, run.month_index)
        record ==
            [monthIndex |-> run.month_index,
             monthLabel |-> month_label(run.date_cursor),
             dateISO |-> run.date_cursor,
             interestAccrued |->
                 money_str(quantize(SumSeq([i \in 1..n |-> interest_for(run.debt_states[i])]))),
             snowballAmount |-> money_str(available_pool),
             additionalAmount |-> money_str(additional_amount),
             defaultPayments |-> [i \in 1..n |-> money_str(default_payments[i])],
             payments |-> [i \in 1..n |-> money_str(payments_this_month[i])],
             remainingBalances |-> [i \in 1..n |-> money_str(settled[i].balance)],
             paymentOverrideWarnings |->
                 overridden.warnings
                 \o total_warnings(quantize(SumFn(default_payments)),
                                   quantize(SumFn(overridden.final)))]
    IN IF accrual.raised
       THEN [run EXCEPT !.pc = "error", !.error = "invalid_operation",
                        !.debt_states = accrual.ds, !.total_interest = accrual.total]
       ELSE IF minimums.raised
       THEN [run EXCEPT !.pc = "error", !.error = "invalid_operation",
                        !.debt_states = minimums.ds, !.total_interest = accrual.total]
       ELSE
       [pc |-> IF next_date.raised \/ exceeded_limit(run.month_index + 1)
               THEN "error" ELSE "loop",
        error |-> IF next_date.raised THEN "date_out_of_range"
                  ELSE IF exceeded_limit(run.month_index + 1) THEN "exceeded"
                  ELSE "none",
        debt_states |-> settled,
        ordered_ids_initial |-> run.ordered_ids_initial,
        initial_snowball |-> run.initial_snowball,
        total_interest |->
            quantize(run.total_interest
                + quantize(SumSeq([i \in 1..n |-> interest_for(run.debt_states[i])]))),
        freed_minimums |->
            quantize(run.freed_minimums
                + quantize(SumSeq([i \in 1..n |->
                      IF i \in closed THEN run.debt_states[i].minimum_payment ELSE 0]))),
        paid_ids |-> run.paid_ids \cup {run.debt_states[i].id : i \in closed},
        month_index |-> run.month_index + 1,
        date_cursor |-> IF next_date.raised THEN run.date_cursor ELSE next_date.date,
        months_output |-> Append(run.months_output, record)]

\* The locals of run_simulation(run_settings, run_debts, schedule_rows,
\* payment_rows) after k iterations of the while loop, or when the loop was
\* left if that came first: the loop test found no open balance (pc is
\* still "loop", the code after the loop comes next), or the code before
\* the loop or an iteration raised or returned.
RECURSIVE run_months(_, _, _, _, _)
run_months(k, run_settings, run_debts, schedule_rows, payment_rows) ==
    IF k = 0 THEN before_loop(run_settings, run_debts)
    ELSE LET run == run_months(k - 1, run_settings, run_debts, schedule_rows,
                               payment_rows)
         IN IF run.pc # "loop" \/ ~any_balance_open(run.debt_states) THEN run
            ELSE loop_body(run, run_settings, schedule_rows, payment_rows)

\* run_simulation is sequential code: a step that can be taken is taken.
SpecLongFair == InitLong /\ [][Next]_vars /\ WF_vars(Next)

-----------------------------------------------------------------------------
(* Properties *)

\* The latest month record and the one before it.
LastMonth == months_output[Len(months_output)]

PrevMonth == months_output[Len(months_output) - 1]

\* The 2-decimal text whole.frac of a non-negative amount.
Text(whole, frac) == [neg |-> FALSE, whole |-> whole, frac |-> frac]

\* The amounts that a dict of 2-decimal texts holds.
CentsOf(texts) == [i \in 1..Len(texts) |-> Cents(texts[i])]

Range(seq) == {seq[i] : i \in 1..Len(seq)}

\* The sum of the minimum payments of the input rows.
InputMinimumSum == SumSeq([i \in 1..Len(debts) |-> debts[i].minimum_payment])

\* The hand-checked avalanche input.
C1_Input ==
    /\ settings.monthly_budget = 20000
    /\ settings.strategy = "avalanche"
    /\ settings.balance_date = [year |-> 2024, month |-> 1, day |-> 1]
    /\ debts = <<WithId(LoanA, 1), WithId(LoanB, 2)>>
    /\ schedule_overrides = <<>>
    /\ payment_overrides = <<>>

\* C1: on the hand-checked avalanche input (budget 200.00, Loan A 100.00 at
\* 12% with minimum 50.00, Loan B 200.00 at 6% with minimum 25.00, no
\* overrides) the run raises no error, simulates 2 months and returns
\* totals 2.51 / 2 / 75.00 / 125.00, month 1 with interest 2.00, pool 125.00,
\* payments 101.00 and 99.00, balances 0.00 and 102.00, month 2 with
\* interest 0.51, pool 175.00, payments 0.00 and 102.51, and payoff after 1
\* month for A and 2 months for B.
C1_AvalancheHandChecked ==
    C1_Input =>
        /\ pc # "error"
        /\ month_index <= 3
        /\ pc = "returned" =>
            /\ Len(result.months) = 2
            /\ result.totals.totalInterest = Text(2, 51)
            /\ result.totals.totalMonths = 2
            /\ result.totals.minPaymentsSum = Text(75, 0)
            /\ result.totals.initialSnowball = Text(125, 0)
            /\ result.months[1].monthIndex = 1
            /\ result.months[1].interestAccrued = Text(2, 0)
            /\ result.months[1].snowballAmount = Text(125, 0)
            /\ result.months[1].payments = <<Text(101, 0), Text(99, 0)>>
            /\ result.months[1].remainingBalances = <<Text(0, 0), Text(102, 0)>>
            /\ result.months[2].monthIndex = 2
            /\ result.months[2].interestAccrued = Text(0, 51)
            /\ result.months[2].snowballAmount = Text(175, 0)
            /\ result.months[2].payments = <<Text(0, 0), Text(102, 51)>>
            /\ [k \in 1..2 |-> result.debts[k].id] = <<1, 2>>
            /\ result.debts[1].monthsToPayoff = 1
            /\ result.debts[2].monthsToPayoff = 2

C1_Witness == C1_Input /\ pc = "returned" /\ Len(result.months) = 2

\* C2: for a non-empty debt list the run fails with the insufficient-budget
\* error exactly when the budget is strictly below the sum of the minimum
\* payments, then with no month simulated and nothing returned; a budget
\* equal to the sum is accepted and gives initialSnowball 0.00.
C2_InsufficientBudget ==
    (pc # "start" /\ debts # <<>>) =>
        /\ error = "insufficient_budget" <=> settings.monthly_budget < InputMinimumSum
        /\ error = "insufficient_budget" =>
            pc = "error" /\ months_output = <<>> /\ result = NoResult
        /\ (settings.monthly_budget = InputMinimumSum /\ pc = "loop") =>
            initial_snowball = 0
        /\ (settings.monthly_budget = InputMinimumSum /\ pc = "returned") =>
            result.totals.initialSnowball = Text(0, 0)

C2_Witness ==
    /\ debts # <<>>
    /\ pc = "error"
    /\ error = "insufficient_budget"
    /\ settings.monthly_budget < InputMinimumSum

\* The other case of C2: a budget equal to the minimums, run to its end.
C2_WitnessEqual ==
    /\ debts # <<>>
    /\ pc = "returned"
    /\ settings.monthly_budget = InputMinimumSum
    /\ result.months # <<>>

\* C3: a returned result stops exactly when all balances are zero: the
\* records carry monthIndex 1, 2, ..., totalMonths, the last record has all
\* remaining balances 0.00 and its monthIndex is totalMonths, and every
\* earlier record has a remaining balance above 0.00.
C3_StopsWhenAllZero ==
    pc = "returned" =>
        /\ Len(result.months) = result.totals.totalMonths
        /\ \A k \in 1..Len(result.months) : result.months[k].monthIndex = k
        /\ result.months # <<>> =>
            /\ \A i \in 1..Len(debts) :
                 result.months[Len(result.months)].remainingBalances[i] = Text(0, 0)
            /\ result.months[Len(result.months)].monthIndex = result.totals.totalMonths
        /\ \A k \in 1..(Len(result.months) - 1) :
             \E i \in 1..Len(debts) : Cents(result.months[k].remainingBalances[i]) > 0

C3_Witness ==
    /\ pc = "returned"
    /\ Len(debts) = 2
    /\ Len(result.months) >= 3
    /\ Cents(result.months[1].remainingBalances[1]) = 0
    /\ Cents(result.months[1].remainingBalances[2]) > 0

\* C4 (as claimed): the exceeded-duration error is raised only when a debt
\* still has a balance above zero after month 600; a run whose balances all
\* reach zero in month 600 returns.
C4_ExceededOnlyWithOpenBalance ==
    (pc = "error" /\ error = "exceeded") => any_balance_open(debt_states)

\* C5: in every simulated month the default (pre-override) payments sum to
\* at most the sum of the minimum payments plus the month's discretionary
\* pool (snowballAmount) plus the month's schedule-override amount.
C5_DefaultPaymentsBounded ==
    months_output # <<>> =>
        SumFn(CentsOf(LastMonth.defaultPayments))
            <= (InputMinimumSum + Cents(LastMonth.snowballAmount))
                + Cents(LastMonth.additionalAmount)

C5_Witness ==
    /\ months_output # <<>>
    /\ Len(debts) = 2
    /\ Cents(LastMonth.additionalAmount) > 0
    /\ LastMonth.monthIndex = 2
    /\ SumFn(CentsOf(LastMonth.defaultPayments)) > InputMinimumSum

\* C6 (as claimed): for every debt the remaining balance of a month record
\* is at most its remaining balance in the record before.
C6_RemainingNeverRises ==
    Len(months_output) >= 2 =>
        \A i \in 1..Len(debts) :
            Cents(LastMonth.remainingBalances[i]) <= Cents(PrevMonth.remainingBalances[i])

\* The interest debt i accrued in the latest month: its post-interest
\* balance less its remaining balance of the month before.
InterestInLastMonth(i) ==
    balances_after_interest[i] - Cents(PrevMonth.remainingBalances[i])

\* C6 (amended): for every debt and every pair of consecutive month
\* records, the remaining balance of the later month is at most that of the
\* earlier month whenever the debt's final payment of the later month is at
\* least the interest it accrued in that month; and a debt's remaining
\* balance is exactly 0.00 in the month in which it closes.
C6_RemainingRisesOnlyByUnpaidInterest ==
    /\ Len(months_output) >= 2 =>
        \A i \in 1..Len(debts) :
            Cents(LastMonth.payments[i]) >= InterestInLastMonth(i) =>
                Cents(LastMonth.remainingBalances[i])
                    <= Cents(PrevMonth.remainingBalances[i])
    /\ \A i \in 1..Len(debt_states) :
        debt_states[i].payoff_month_index # <<>> =>
            months_output[debt_states[i].payoff_month_index[1]].remainingBalances[i]
                = Text(0, 0)

\* A debt that was paid less than its interest in month 1 and more in
\* month 2, and a debt that closed in month 2.
C6_Witness ==
    /\ Len(months_output) = 2
    /\ \E i \in 1..Len(debts) :
        /\ Cents(PrevMonth.remainingBalances[i]) > debts[i].balance
        /\ InterestInLastMonth(i) > 0
        /\ Cents(LastMonth.payments[i]) >= InterestInLastMonth(i)
        /\ Cents(LastMonth.remainingBalances[i]) > 0
    /\ \E i \in 1..Len(debts) : debt_states[i].payoff_month_index = <<2>>

\* The rows registered for the latest month and an existing debt, with an
\* amount that is not negative.
OverrideRowsOfLastMonth ==
    {row \in Range(payment_overrides) :
        /\ row.month_index = LastMonth.monthIndex
        /\ row.debt_id \in 1..Len(debts)
        /\ row.amount >= 0}

\* C7: a payment override (m, d) with amount a >= 0 makes d's final payment
\* in month m min(a, d's post-interest balance), also when the overridden
\* total exceeds the budget; the capped warning of d is present exactly when
\* a exceeds that balance; and the run goes on without error.
C7_OverrideCappedAtBalance ==
    months_output # <<>> =>
        \A row \in OverrideRowsOfLastMonth :
            /\ Cents(LastMonth.payments[row.debt_id])
                   = Min(row.amount, balances_after_interest[row.debt_id])
            /\ CappedWarning(row.debt_id) \in Range(LastMonth.paymentOverrideWarnings)
                   <=> row.amount > balances_after_interest[row.debt_id]
            /\ error = "none"

C7_Witness ==
    /\ months_output # <<>>
    /\ \E row \in OverrideRowsOfLastMonth :
        /\ row.amount > balances_after_interest[row.debt_id]
        /\ balances_after_interest[row.debt_id] > 0
        /\ Cents(LastMonth.payments[row.debt_id]) = balances_after_interest[row.debt_id]
    /\ SumFn(CentsOf(LastMonth.payments)) > settings.monthly_budget

\* C8: a debt with no payment override registered for the month keeps its
\* default payment as its final payment, whatever overrides the other debts
\* have in that month.
C8_NoReallocation ==
    months_output # <<>> =>
        \A i \in 1..Len(debts) :
            (\A row \in Range(payment_overrides) :
                ~(row.month_index = LastMonth.monthIndex /\ row.debt_id = debts[i].id))
            => LastMonth.payments[i] = LastMonth.defaultPayments[i]

\* One debt's override lowered its payment while another debt, with no
\* override, was paid its default.
C8_Witness ==
    /\ months_output # <<>>
    /\ \E row \in OverrideRowsOfLastMonth :
        /\ Cents(LastMonth.payments[row.debt_id])
               < Cents(LastMonth.defaultPayments[row.debt_id])
        /\ \E i \in 1..Len(debts) :
            /\ i # row.debt_id
            /\ \A other \in Range(payment_overrides) : other.debt_id # i
            /\ Cents(LastMonth.defaultPayments[i]) > 0
            /\ Cents(LastMonth.remainingBalances[i]) > 0

WarningsOfKind(kind) ==
    {w \in Range(LastMonth.paymentOverrideWarnings) : w.kind = kind}

\* C9: with F the total of the final and D the total of the default
\* payments of a month: F > D gives the warning naming exactly F - D as the
\* additional funds needed, F < D gives the unallocated-budget warning,
\* F = D gives neither, and the two never appear together.
C9_TotalWarnings ==
    months_output # <<>> =>
        LET F == SumFn(CentsOf(LastMonth.payments))
            D == SumFn(CentsOf(LastMonth.defaultPayments))
        IN /\ F > D => /\ WarningsOfKind("excess") = {ExcessWarning(F - D)}
                       /\ WarningsOfKind("unallocated") = {}
           /\ F < D => /\ WarningsOfKind("unallocated") = {UnallocatedWarning}
                       /\ WarningsOfKind("excess") = {}
           /\ F = D => /\ WarningsOfKind("excess") = {}
                       /\ WarningsOfKind("unallocated") = {}

\* Two overrides of one month, one above and one below the default, with a
\* total above the default total.
C9_Witness ==
    /\ months_output # <<>>
    /\ SumFn(CentsOf(LastMonth.payments)) > SumFn(CentsOf(LastMonth.defaultPayments))
    /\ \E i \in 1..Len(debts) :
        Cents(LastMonth.payments[i]) < Cents(LastMonth.defaultPayments[i])
    /\ WarningsOfKind("excess") # {}

\* C10: order_debts raises the unknown-strategy error for every strategy
\* other than avalanche, snowball, entered and custom, whatever the debts;
\* and with a non-empty debt list whose minimums fit the budget the run
\* fails with that error, with no month simulated and nothing returned.
C10_UnknownStrategy ==
    settings.strategy \notin {"avalanche", "snowball", "entered", "custom"} =>
        /\ order_debts(settings.strategy, debt_states).raised
        /\ order_debts(settings.strategy, [i \in 1..Len(debts) |-> new_debt_state(debts[i])]).raised
        /\ (pc # "start" /\ debts # <<>> /\ settings.monthly_budget >= InputMinimumSum) =>
            /\ pc = "error"
            /\ error = "unknown_strategy"
            /\ months_output = <<>>
            /\ result = NoResult

C10_Witness ==
    /\ pc = "error"
    /\ error = "unknown_strategy"
    /\ Len(debts) = 2
    /\ settings.strategy \notin {"avalanche", "snowball", "entered", "custom"}

\* C11: for an empty debt list run_simulation returns, raising no error,
\* whatever the budget, the strategy and the overrides: no months, no debts,
\* totalInterest 0.00, totalMonths 0, minPaymentsSum 0.00 and
\* initialSnowball 0.00.
C11_EmptyListShortCircuits ==
    (debts = <<>> /\ pc # "start") =>
        /\ pc = "returned"
        /\ error = "none"
        /\ result.months = <<>>
        /\ result.debts = <<>>
        /\ result.totals =
              [totalInterest |-> Text(0, 0), totalMonths |-> 0,
               minPaymentsSum |-> Text(0, 0), initialSnowball |-> Text(0, 0)]

\* An empty list with a negative budget, an unknown strategy and a payment
\* override.
C11_Witness ==
    /\ debts = <<>>
    /\ pc = "returned"
    /\ settings.monthly_budget < 0
    /\ settings.strategy \notin KnownStrategies
    /\ payment_overrides # <<>>

\* The balance debt i held when the order of the latest month was computed:
\* its initial balance in month 1, afterwards its remaining balance of the
\* month before.
BalanceBeforeLastMonth(i) ==
    IF Len(months_output) = 1 THEN debts[i].balance
    ELSE Cents(PrevMonth.remainingBalances[i])

\* order lists every debt (by index) exactly once.
IsPermutation(order) ==
    /\ Len(order) = Len(debts)
    /\ Range(order) = 1..Len(debts)

\* Debt i may stand before debt j under avalanche when i's balance is bi and
\* j's is bj: APR descending, then balance ascending, then creditor name
\* compared case-insensitively ascending.
AvalancheInOrder(i, bi, j, bj) ==
    \/ debts[i].apr > debts[j].apr
    \/ /\ debts[i].apr = debts[j].apr
       /\ bi < bj
    \/ /\ debts[i].apr = debts[j].apr
       /\ bi = bj
       /\ ~StrLess(lower(debts[j].creditor), lower(debts[i].creditor))

\* C12: for strategy avalanche the order of the per-debt summary list and
\* the order computed in every month are permutations of the debts sorted by
\* APR descending, then balance ascending, then creditor name compared
\* case-insensitively ascending; a debt with a strictly higher APR stands
\* before every debt with a lower APR.
C12_AvalancheOrder ==
    settings.strategy = "avalanche" =>
        /\ pc \in {"loop", "returned"} =>
            /\ IsPermutation(ordered_ids_initial)
            /\ \A k, l \in 1..Len(ordered_ids_initial) :
                 k < l =>
                    /\ AvalancheInOrder(ordered_ids_initial[k],
                                        debts[ordered_ids_initial[k]].balance,
                                        ordered_ids_initial[l],
                                        debts[ordered_ids_initial[l]].balance)
                    /\ debts[ordered_ids_initial[k]].apr
                           >= debts[ordered_ids_initial[l]].apr
        /\ months_output # <<>> =>
            /\ IsPermutation(ordered_states)
            /\ \A k, l \in 1..Len(ordered_states) :
                 k < l =>
                    /\ AvalancheInOrder(ordered_states[k],
                                        BalanceBeforeLastMonth(ordered_states[k]),
                                        ordered_states[l],
                                        BalanceBeforeLastMonth(ordered_states[l]))
                    /\ debts[ordered_states[k]].apr >= debts[ordered_states[l]].apr
        /\ pc = "returned" =>
            [k \in 1..Len(result.debts) |-> result.debts[k].id] = ordered_ids_initial

\* An avalanche run of three debts in which the balance tie-break changed
\* the order during the run.
C12_WitnessReordered ==
    /\ settings.strategy = "avalanche"
    /\ pc = "returned"
    /\ Len(debts) = 3
    /\ ordered_states # ordered_ids_initial
    /\ \E k, l \in 1..3 :
        /\ k < l
        /\ debts[ordered_ids_initial[k]].apr > debts[ordered_ids_initial[l]].apr

\* An avalanche run of three debts in which the name tie-break went against
\* the case-sensitive comparison.
C12_Witness ==
    /\ settings.strategy = "avalanche"
    /\ pc = "returned"
    /\ Len(debts) = 3
    /\ Len(months_output) >= 2
    /\ \E k, l \in 1..3 :
        /\ k < l
        /\ debts[ordered_ids_initial[k]].apr = debts[ordered_ids_initial[l]].apr
        /\ debts[ordered_ids_initial[k]].balance = debts[ordered_ids_initial[l]].balance
        /\ StrLess(debts[ordered_ids_initial[l]].creditor,
                   debts[ordered_ids_initial[k]].creditor)
    /\ \E k, l \in 1..3 :
        /\ k < l
        /\ debts[ordered_ids_initial[k]].apr > debts[ordered_ids_initial[l]].apr

\* Debt i may stand before debt j under custom, as claimed, when i's
\* balance is bi and j's is bj: a debt with a priority before a debt without
\* one, priority ascending, then balance ascending, then creditor name.
CustomInOrder(i, bi, j, bj) ==
    LET pi == debts[i].custom_priority
        pj == debts[j].custom_priority
    IN \/ pi # <<>> /\ pj = <<>>
       \/ pi # <<>> /\ pj # <<>> /\ pi[1] < pj[1]
       \/ /\ (pi = <<>> /\ pj = <<>>) \/ (pi # <<>> /\ pj # <<>> /\ pi[1] = pj[1])
          /\ \/ bi < bj
             \/ bi = bj /\ ~StrLess(lower(debts[j].creditor), lower(debts[i].creditor))

\* C13 (as claimed): for strategy custom the debts are ordered by custom
\* priority ascending, every debt that has a priority (whatever its value)
\* stands before every debt that has none, and debts of equal priority are
\* ordered by balance ascending and then creditor name.
C13_CustomOrder ==
    settings.strategy = "custom" =>
        /\ pc \in {"loop", "returned"} =>
            \A k, l \in 1..Len(ordered_ids_initial) :
                k < l => CustomInOrder(ordered_ids_initial[k],
                                       debts[ordered_ids_initial[k]].balance,
                                       ordered_ids_initial[l],
                                       debts[ordered_ids_initial[l]].balance)
        /\ months_output # <<>> =>
            \A k, l \in 1..Len(ordered_states) :
                k < l => CustomInOrder(ordered_states[k],
                                       BalanceBeforeLastMonth(ordered_states[k]),
                                       ordered_states[l],
                                       BalanceBeforeLastMonth(ordered_states[l]))

\* The ids of the per-debt summaries, in the order of the list.
SummaryIds == [k \in 1..Len(result.debts) |-> result.debts[k].id]

\* The order the strategy gives on the debts as they are at the start.
InitialOrderIds ==
    LET states == [i \in 1..Len(debts) |-> new_debt_state(debts[i])]
        order == order_debts(settings.strategy, states).list
    IN [k \in 1..Len(order) |-> states[order[k]].id]

\* C14: the per-debt summary list of a result holds every input debt
\* exactly once, in the order the strategy gives on the initial balances;
\* the orders computed in later months and the order in which the debts are
\* paid off do not change it.
C14_SummaryInInitialOrder ==
    (pc = "returned" /\ debts # <<>>) =>
        /\ Len(SummaryIds) = Len(debts)
        /\ \A i \in 1..Len(debts) :
             Cardinality({k \in 1..Len(SummaryIds) : SummaryIds[k] = debts[i].id}) = 1
        /\ SummaryIds = InitialOrderIds

\* A run whose latest month order differs from the summary order and in
\* which a debt listed later was paid off earlier.
C14_Witness ==
    /\ pc = "returned"
    /\ Len(debts) = 3
    /\ ordered_states # SummaryIds
    /\ \E k, l \in 1..3 :
        /\ k < l
        /\ result.debts[k].monthsToPayoff > result.debts[l].monthsToPayoff

\* The summary of the debt with index i in the input list.
SummaryOf(i) ==
    result.debts[CHOOSE k \in 1..Len(result.debts) : result.debts[k].id = debts[i].id]

\* The months whose record shows debt i with a remaining balance of 0.00.
ZeroMonths(i) ==
    {m \in 1..Len(result.months) : result.months[m].remainingBalances[i] = Text(0, 0)}

\* Every debt of the returned result is closed: it has a payoff month index,
\* which is the first month showing it at 0.00 and is its monthsToPayoff,
\* its payoffMonthLabel is not null, and the largest monthsToPayoff is
\* totalMonths.
AllDebtsClosed ==
    /\ \A i \in 1..Len(debts) :
        /\ debt_states[i].payoff_month_index # <<>>
        /\ SummaryOf(i).monthsToPayoff = debt_states[i].payoff_month_index[1]
        /\ SummaryOf(i).monthsToPayoff \in ZeroMonths(i)
        /\ \A m \in ZeroMonths(i) : SummaryOf(i).monthsToPayoff <= m
        /\ SummaryOf(i).payoffMonthLabel # <<>>
        /\ SummaryOf(i).monthsToPayoff <= result.totals.totalMonths
    /\ \E i \in 1..Len(debts) :
        SummaryOf(i).monthsToPayoff = result.totals.totalMonths

\* C15 (as claimed): whenever a result is returned for a non-empty debt
\* list, every debt is closed and the fallback to totalMonths is not used.
C15_EveryDebtClosedOnReturn ==
    (pc = "returned" /\ debts # <<>>) => AllDebtsClosed

\* C15 (amended): whenever a result is returned for a debt list in which at
\* least one debt starts with a balance above 0.00, every debt is closed
\* and the fallback to totalMonths is not used; when no debt starts above
\* 0.00, no month is simulated and every summary has monthsToPayoff 0 and
\* no payoffMonthLabel.
C15_EveryDebtClosedAfterAMonth ==
    /\ (pc = "returned" /\ \E i \in 1..Len(debts) : debts[i].balance > 0)
        => AllDebtsClosed
    /\ (pc = "returned" /\ \A i \in 1..Len(debts) : debts[i].balance <= 0)
        => /\ result.months = <<>>
           /\ result.totals.totalMonths = 0
           /\ \A k \in 1..Len(result.debts) :
                /\ result.debts[k].monthsToPayoff = 0
                /\ result.debts[k].payoffMonthLabel = <<>>

\* A returned run in which one debt started at 0.00 and the other was paid
\* off later.
C15_Witness ==
    /\ pc = "returned"
    /\ Len(debts) = 2
    /\ \E i, j \in 1..2 :
        /\ debts[i].balance = 0
        /\ debts[j].balance > 0
        /\ SummaryOf(i).monthsToPayoff = 1
        /\ SummaryOf(j).monthsToPayoff >= 2
        /\ SummaryOf(j).monthsToPayoff = result.totals.totalMonths

\* C17: every invocation terminates: the month loop executes at most 600
\* iterations and the call then either returns a result or fails with an
\* error, also when the interest is never covered by the payments.
C17_Terminates ==
    /\ [](Len(months_output) <= MaxMonths /\ month_index <= MaxMonths + 1)
    /\ <>(pc \in {"returned", "error"} /\ Len(months_output) <= MaxMonths)

\* The run of the debt that is never paid its interest was stopped after
\* 600 iterations with its balance above the initial one.
C17_Witness ==
    /\ debts = <<WithId(LoanNeverCovered, 1)>>
    /\ pc = "error"
    /\ error = "exceeded"
    /\ Len(months_output) = MaxMonths
    /\ debt_states[1].balance > debts[1].balance

\* The payoff month index recorded for debt i (0 while there is none).
PayoffIndex(i) ==
    IF debt_states[i].payoff_month_index = <<>> THEN 0
    ELSE debt_states[i].payoff_month_index[1]

\* A recorded payoff month index is the first month that ended with the
\* debt at 0.00; in every month after it the debt accrued no interest and
\* its default payment, final payment and remaining balance are 0.00.
ClosedStaysClosed ==
    \A i \in 1..Len(debt_states) :
        PayoffIndex(i) # 0 =>
            /\ PayoffIndex(i) \in 1..Len(months_output)
            /\ \A m \in 1..Len(months_output) :
                 /\ m < PayoffIndex(i) =>
                        Cents(months_output[m].remainingBalances[i]) > 0
                 /\ m >= PayoffIndex(i) =>
                        months_output[m].remainingBalances[i] = Text(0, 0)
                 /\ m > PayoffIndex(i) =>
                        /\ months_output[m].defaultPayments[i] = Text(0, 0)
                        /\ months_output[m].payments[i] = Text(0, 0)
            /\ LastMonth.monthIndex > PayoffIndex(i) =>
                 /\ balances_after_interest[i] = 0
                 /\ debt_states[i].balance = 0

\* A step leaves a recorded payoff month index and the interest of a closed
\* debt as they are.
PayoffRecordedOnce ==
    \A i \in 1..Len(debt_states) :
        PayoffIndex(i) # 0 =>
            /\ debt_states'[i].payoff_month_index = debt_states[i].payoff_month_index
            /\ debt_states'[i].interest_paid = debt_states[i].interest_paid

\* C18: closing is permanent and recorded once: the payoff month index is
\* set in the first month that ends with the debt at zero and never changes
\* afterwards; in every later month the debt accrues no interest and has
\* default payment, final payment and remaining balance 0.00, whatever
\* payment overrides target it.
C18_ClosingIsPermanent ==
    /\ []ClosedStaysClosed
    /\ [][PayoffRecordedOnce]_vars

\* A debt closed in month 1 is the target of a payment override of month 2
\* above 0.00 and is paid 0.00 in month 2.
C18_Witness ==
    /\ Len(months_output) = 2
    /\ \E row \in OverrideRowsOfLastMonth :
        /\ row.amount > 0
        /\ PayoffIndex(row.debt_id) = 1
        /\ debts[row.debt_id].balance > 0
        /\ LastMonth.payments[row.debt_id] = Text(0, 0)

\* The schedule-override amount registered for month m, 0 if there is none.
RegisteredAdditional(m) ==
    IF \E k \in 1..Len(schedule_overrides) : schedule_overrides[k].month_index = m
    THEN schedule_overrides[CHOOSE k \in 1..Len(schedule_overrides) :
                               schedule_overrides[k].month_index = m].additional_amount
    ELSE 0

\* The debts closed in a month before the latest one: those the record of
\* the month before shows at 0.00.
ClosedBeforeLastMonth ==
    IF Len(months_output) < 2 THEN {}
    ELSE {i \in 1..Len(debts) : PrevMonth.remainingBalances[i] = Text(0, 0)}

\* C19: the snowballAmount of month m is initialSnowball (max(budget - sum
\* of minimums, 0)) plus the minimum payments of exactly the debts closed in
\* months before m plus the schedule-override amount registered for month m
\* (0 if none): a minimum is credited once, not in the month of closing, and
\* a schedule override changes the pool of its own month only.
C19_SnowballAmount ==
    months_output # <<>> =>
        /\ Cents(LastMonth.snowballAmount) =
              (Max(settings.monthly_budget - InputMinimumSum, 0)
               + SumSeq([i \in 1..Len(debts) |->
                    IF i \in ClosedBeforeLastMonth THEN debts[i].minimum_payment ELSE 0]))
              + RegisteredAdditional(LastMonth.monthIndex)
        /\ Cents(LastMonth.additionalAmount) = RegisteredAdditional(LastMonth.monthIndex)

\* Month 3 of a run with a schedule override for month 2: a debt closed in
\* month 2, whose pool held the override and not the debt's minimum; the
\* pool of month 3 holds the minimum and not the override.
C19_Witness ==
    /\ Len(months_output) = 3
    /\ Len(debts) = 2
    /\ RegisteredAdditional(2) > 0
    /\ \E i, j \in 1..2 :
        /\ ClosedBeforeLastMonth = {i}
        /\ PayoffIndex(i) = 2
        /\ debts[i].minimum_payment > 0
        /\ Cents(LastMonth.remainingBalances[j]) > 0
        /\ Cents(PrevMonth.snowballAmount) =
              Max(settings.monthly_budget - InputMinimumSum, 0) + RegisteredAdditional(2)
        /\ Cents(LastMonth.snowballAmount) =
              Max(settings.monthly_budget - InputMinimumSum, 0) + debts[i].minimum_payment

\* The balances the phases of the coming month produce from the balances
\* of a loop state: after interest, after the minimum payments and after
\* the snowball payments.
ComingPhases ==
    LET after_interest == accrue_interest(debt_states)
        after_minimums ==
            apply_minimums(order_debts(settings.strategy, debt_states).list,
                           after_interest).ds
        pool == schedule_amount(schedule_overrides, month_index)
                    + (initial_snowball + freed_minimums)
        surplus == SumSeq([i \in 1..Len(debt_states) |-> surplus_for(after_interest[i])])
        after_snowball ==
            apply_snowball(order_debts(settings.strategy, debt_states).list,
                           [ds |-> after_minimums,
                            pay |-> [i \in 1..Len(debt_states) |-> 0],
                            remaining |-> quantize(quantize(pool) + surplus)]).ds
    IN [i \in 1..Len(debt_states) |->
           <<debt_states[i].balance, after_interest[i].balance,
             after_minimums[i].balance, after_snowball[i].balance>>]

\* C20: in every state of the month loop every balance is at least 0.00,
\* the payment phases of a month never raise a balance (only the interest
\* phase does), and the remaining balance a month records for a debt is at
\* most the debt's post-interest balance of that month.
C20_BalancesBounded ==
    /\ pc = "loop" =>
        \A phases \in {ComingPhases} :
        \A i \in 1..Len(debt_states) :
            /\ phases[i][1] >= 0
            /\ phases[i][2] >= phases[i][1]
            /\ phases[i][3] >= 0
            /\ phases[i][3] <= phases[i][2]
            /\ phases[i][4] >= 0
            /\ phases[i][4] <= phases[i][3]
    /\ months_output # <<>> =>
        \A i \in 1..Len(debt_states) :
            /\ debt_states[i].balance >= 0
            /\ balances_after_interest[i] >= 0
            /\ LastMonth.remainingBalances[i].neg = FALSE
            /\ Cents(LastMonth.remainingBalances[i]) = debt_states[i].balance
            /\ Cents(LastMonth.remainingBalances[i]) <= balances_after_interest[i]

\* A month in which a debt accrued interest, was the target of a payment
\* override below its default payment, and was left with part of its
\* post-interest balance.
C20_Witness ==
    /\ months_output # <<>>
    /\ \E row \in Range(payment_overrides) :
        /\ row.month_index = LastMonth.monthIndex
        /\ row.debt_id \in 1..Len(debts)
        /\ row.amount > 0
        /\ row.amount < Cents(LastMonth.defaultPayments[row.debt_id])
        /\ balances_after_interest[row.debt_id] > debts[row.debt_id].balance
        /\ Cents(LastMonth.remainingBalances[row.debt_id]) > 0
        /\ Cents(LastMonth.remainingBalances[row.debt_id])
               < balances_after_interest[row.debt_id]

\* The rows registered for the latest month with an amount that is not
\* negative, for any debt id.
RowsOfLastMonth ==
    {row \in Range(payment_overrides) :
        row.month_index = LastMonth.monthIndex /\ row.amount >= 0}

\* C21 (as claimed): a payment override for a debt whose default payment of
\* the month is 0.00 leaves the debt's final payment equal to its default
\* payment and produces no warning.
C21_OverrideNeedsComputedPayment ==
    months_output # <<>> =>
        \A row \in OverrideRowsOfLastMonth :
            LastMonth.defaultPayments[row.debt_id] = Text(0, 0) =>
                /\ LastMonth.payments[row.debt_id] = LastMonth.defaultPayments[row.debt_id]
                /\ CappedWarning(row.debt_id) \notin Range(LastMonth.paymentOverrideWarnings)

\* C21 (amended): a payment override takes effect for every debt of the
\* list, whatever its default payment: a debt whose default payment is 0.00
\* is paid min(amount, post-interest balance), which is its default payment
\* 0.00 when it is closed, and the capped warning is produced exactly when
\* the amount exceeds the post-interest balance; only an override for an id
\* that is not in the list changes no payment and produces no warning.
C21_OverrideNeedsListedDebt ==
    months_output # <<>> =>
        \A row \in RowsOfLastMonth :
            /\ (row.debt_id \in 1..Len(debts)
                    /\ LastMonth.defaultPayments[row.debt_id] = Text(0, 0)) =>
                /\ Cents(LastMonth.payments[row.debt_id])
                       = Min(row.amount, balances_after_interest[row.debt_id])
                /\ balances_after_interest[row.debt_id] = 0 =>
                       LastMonth.payments[row.debt_id] = Text(0, 0)
                /\ CappedWarning(row.debt_id) \in Range(LastMonth.paymentOverrideWarnings)
                       <=> row.amount > balances_after_interest[row.debt_id]
            /\ (row.debt_id \notin 1..Len(debts) /\ Len(payment_overrides) = 1) =>
                /\ LastMonth.payments = LastMonth.defaultPayments
                /\ LastMonth.paymentOverrideWarnings = <<>>

\* An open debt that the default allocation paid nothing is paid the
\* amount of its override.
C21_Witness ==
    /\ months_output # <<>>
    /\ \E row \in OverrideRowsOfLastMonth :
        /\ row.amount > 0
        /\ LastMonth.defaultPayments[row.debt_id] = Text(0, 0)
        /\ balances_after_interest[row.debt_id] > row.amount
        /\ Cents(LastMonth.payments[row.debt_id]) = row.amount

\* A closed debt is the target of an override above 0.00: it is paid 0.00
\* and the capped warning is produced.
C21_WitnessClosed ==
    /\ Len(months_output) >= 2
    /\ \E row \in OverrideRowsOfLastMonth :
        /\ row.amount > 0
        /\ balances_after_interest[row.debt_id] = 0
        /\ LastMonth.payments[row.debt_id] = Text(0, 0)
        /\ CappedWarning(row.debt_id) \in Range(LastMonth.paymentOverrideWarnings)

\* An override for an id that is not in the list met a simulated month.
C21_WitnessUnknownId ==
    /\ months_output # <<>>
    /\ \E row \in RowsOfLastMonth : row.debt_id \notin 1..Len(debts)

\* Debt i may stand before debt j under snowball when i's balance is bi and
\* j's is bj: balance ascending, then APR descending, then creditor name
\* ascending (names compare without regard to case, as for avalanche).
SnowballInOrder(i, bi, j, bj) ==
    \/ bi < bj
    \/ /\ bi = bj
       /\ debts[i].apr > debts[j].apr
    \/ /\ bi = bj
       /\ debts[i].apr = debts[j].apr
       /\ ~StrLess(lower(debts[j].creditor), lower(debts[i].creditor))

\* C22: for strategy snowball the order of every month is a permutation of
\* the debts sorted by balance ascending, then APR descending, then creditor
\* name, on the balances held before that month's interest is accrued (the
\* initial balances in month 1, afterwards the remaining balances of the
\* month before).
C22_SnowballOrderPerMonth ==
    (settings.strategy = "snowball" /\ months_output # <<>>) =>
        /\ IsPermutation(ordered_states)
        /\ \A k, l \in 1..Len(ordered_states) :
             k < l => SnowballInOrder(ordered_states[k],
                                      BalanceBeforeLastMonth(ordered_states[k]),
                                      ordered_states[l],
                                      BalanceBeforeLastMonth(ordered_states[l]))

\* A snowball run of three debts whose order of the latest month differs
\* from the order at the start: a debt with the larger initial balance has
\* the smaller balance now.
C22_Witness ==
    /\ settings.strategy = "snowball"
    /\ Len(debts) = 3
    /\ Len(months_output) >= 2
    /\ ordered_states # ordered_ids_initial
    /\ \E k, l \in 1..3 :
        /\ k < l
        /\ debts[ordered_states[k]].balance > debts[ordered_states[l]].balance
        /\ BalanceBeforeLastMonth(ordered_states[k]) > 0
        /\ BalanceBeforeLastMonth(ordered_states[k])
               < BalanceBeforeLastMonth(ordered_states[l])

\* The place of debt i in an order.
PlaceIn(order, i) == CHOOSE k \in 1..Len(order) : order[k] = i

\* C23 (as claimed): for the strategies entered and custom the order
\* computed in every simulated month is the order computed at the start.
C23_OrderStable ==
    (settings.strategy \in {"entered", "custom"} /\ months_output # <<>>) =>
        ordered_states = ordered_ids_initial

\* C23 (amended): for entered the order of every month is the order
\* computed at the start, by entry position ascending; for custom two debts
\* whose custom priorities differ (a missing one counting as the value the
\* key gives it) keep their relative order in every month, and two debts of
\* equal priority stand in the order of their balances before the month.
C23_OrderStableUpToBalanceTies ==
    months_output # <<>> =>
        /\ settings.strategy = "entered" =>
            /\ ordered_states = ordered_ids_initial
            /\ \A k, l \in 1..Len(ordered_states) :
                 k < l => debts[ordered_states[k]].position
                             <= debts[ordered_states[l]].position
        /\ settings.strategy = "custom" =>
            /\ IsPermutation(ordered_states)
            /\ \A i, j \in 1..Len(debts) :
                 priority_key(debts[i]) # priority_key(debts[j]) =>
                    (PlaceIn(ordered_states, i) < PlaceIn(ordered_states, j)
                        <=> PlaceIn(ordered_ids_initial, i) < PlaceIn(ordered_ids_initial, j))
            /\ \A k, l \in 1..Len(ordered_states) :
                 (k < l /\ priority_key(debts[ordered_states[k]])
                              = priority_key(debts[ordered_states[l]])) =>
                    BalanceBeforeLastMonth(ordered_states[k])
                        <= BalanceBeforeLastMonth(ordered_states[l])

\* A custom run of three debts in which two debts of equal priority
\* changed places while the debt of another priority kept its place.
C23_Witness ==
    /\ settings.strategy = "custom"
    /\ Len(debts) = 3
    /\ Len(months_output) >= 2
    /\ ordered_states # ordered_ids_initial
    /\ \E i, j \in 1..3 : priority_key(debts[i]) # priority_key(debts[j])

\* An entered run of three debts in which the balances of two debts
\* changed their order and the month order did not.
C23_WitnessEntered ==
    /\ settings.strategy = "entered"
    /\ Len(debts) = 3
    /\ Len(months_output) >= 2
    /\ \E i, j \in 1..3 :
        /\ debts[i].balance < debts[j].balance
        /\ BalanceBeforeLastMonth(i) > BalanceBeforeLastMonth(j)
        /\ BalanceBeforeLastMonth(j) > 0

\* balance x APR / 1200 rounded half-up to whole cents.
HalfUpInterest(balance, apr) == ((2 * balance * apr) + 1200) \div 2400

\* The interest debt i accrued in the latest month: its post-interest
\* balance less the balance it held before the month.
AccruedInLastMonth(i) == balances_after_interest[i] - BalanceBeforeLastMonth(i)

\* C24 (as claimed): in every month every debt whose start-of-month balance
\* is above zero, and no other, accrues balance x APR / 1200 rounded half-up
\* to whole cents; the month's interestAccrued is the sum of these amounts;
\* on return totalInterest is the sum of interestAccrued over the months and
\* the sum of interestPaid over the debts.
C24_InterestHalfUp ==
    /\ months_output # <<>> =>
        /\ \A i \in 1..Len(debts) :
             AccruedInLastMonth(i) =
                IF BalanceBeforeLastMonth(i) > 0
                THEN HalfUpInterest(BalanceBeforeLastMonth(i), debts[i].apr)
                ELSE 0
        /\ Cents(LastMonth.interestAccrued) =
              SumSeq([i \in 1..Len(debts) |-> AccruedInLastMonth(i)])
    /\ (pc = "returned" /\ debts # <<>>) =>
        /\ Cents(result.totals.totalInterest) =
              SumSeq([m \in 1..Len(result.months) |->
                         Cents(result.months[m].interestAccrued)])
        /\ Cents(result.totals.totalInterest) =
              SumSeq([k \in 1..Len(result.debts) |-> Cents(result.debts[k].interestPaid)])

\* The debts open in the latest month: those with a post-interest balance
\* above zero.
OpenInLastMonth == {i \in 1..Len(debts) : balances_after_interest[i] > 0}

\* min(minimum payment, post-interest balance) of debt i in the latest month.
MinimumPart(i) == Min(debts[i].minimum_payment, balances_after_interest[i])

\* C25: in every month every open debt's default payment is at least
\* min(its minimum payment, its post-interest balance) and at most its
\* post-interest balance; and the part of a minimum that a debt with a
\* post-interest balance below its minimum does not use is spent on the
\* other debts in that month: the default payments sum to the minimum parts
\* plus the smaller of (pool + unused minimums) and what the debts still
\* owe after their minimum parts.
C25_DefaultPaymentBounds ==
    months_output # <<>> =>
        \A open \in {OpenInLastMonth} :
        \A pay \in {CentsOf(LastMonth.defaultPayments)} :
            /\ \A i \in open :
                 /\ pay[i] >= MinimumPart(i)
                 /\ pay[i] <= balances_after_interest[i]
            /\ SumFn(pay) =
                 SumSeq([i \in 1..Len(debts) |-> IF i \in open THEN MinimumPart(i) ELSE 0])
                 + Min(Cents(LastMonth.snowballAmount)
                        + SumSeq([i \in 1..Len(debts) |->
                             IF i \in open
                             THEN debts[i].minimum_payment - MinimumPart(i) ELSE 0]),
                       SumSeq([i \in 1..Len(debts) |->
                             IF i \in open
                             THEN balances_after_interest[i] - MinimumPart(i) ELSE 0]))

\* A month in which one open debt owes less than its minimum and another
\* debt is paid more than its minimum part plus the whole pool: the unused
\* minimum reached it.
C25_Witness ==
    /\ months_output # <<>>
    /\ \E i, j \in OpenInLastMonth :
        /\ i # j
        /\ balances_after_interest[i] < debts[i].minimum_payment
        /\ Cents(LastMonth.defaultPayments[i]) = balances_after_interest[i]
        /\ Cents(LastMonth.defaultPayments[j])
              > MinimumPart(j) + Cents(LastMonth.snowballAmount)
        /\ Cents(LastMonth.defaultPayments[j]) < balances_after_interest[j]

\* C26: the pool is allocated greedily in the month's order: in the default
\* payments of any month, if a debt receives more than min(its minimum
\* payment, its post-interest balance), every open debt placed before it in
\* that month's order has a default payment equal to its whole post-interest
\* balance.
C26_GreedyInOrder ==
    months_output # <<>> =>
        \A pay \in {CentsOf(LastMonth.defaultPayments)} :
        \A q \in 1..Len(ordered_states) :
            pay[ordered_states[q]] > MinimumPart(ordered_states[q]) =>
                \A p \in 1..(q - 1) :
                    ordered_states[p] \in OpenInLastMonth =>
                        pay[ordered_states[p]] = balances_after_interest[ordered_states[p]]

\* A month in which the pool paid off the first open debt of the order
\* beyond its minimum and what was left went to a later debt, which stays
\* open.
C26_Witness ==
    /\ months_output # <<>>
    /\ Len(debts) = 3
    /\ \E q \in 1..Len(ordered_states) : \E p \in 1..(q - 1) :
        /\ ordered_states[p] \in OpenInLastMonth
        /\ ordered_states[p] > ordered_states[q]
        /\ Cents(LastMonth.defaultPayments[ordered_states[p]])
              = balances_after_interest[ordered_states[p]]
        /\ Cents(LastMonth.defaultPayments[ordered_states[p]])
              > MinimumPart(ordered_states[p])
        /\ Cents(LastMonth.defaultPayments[ordered_states[q]])
              > MinimumPart(ordered_states[q])
        /\ Cents(LastMonth.defaultPayments[ordered_states[q]])
              < balances_after_interest[ordered_states[q]]

\* Every debt of the input starts with a balance above zero and no schedule
\* override has a negative amount.
AllStartOpen ==
    /\ \A i \in 1..Len(debts) : debts[i].balance > 0
    /\ \A k \in 1..Len(schedule_overrides) : schedule_overrides[k].additional_amount >= 0

\* C27: when every debt starts with a balance above zero and all schedule
\* amounts are non-negative, the default payments of every simulated month
\* (also of months after a payment override was applied) sum to
\* min(monthly budget + the month's schedule-override amount, sum of the
\* month's post-interest balances).
C27_WholeBudgetDeployed ==
    (months_output # <<>> /\ AllStartOpen) =>
        SumFn(CentsOf(LastMonth.defaultPayments)) =
            Min(settings.monthly_budget + RegisteredAdditional(LastMonth.monthIndex),
                SumFn(balances_after_interest))

\* Month 2 of a run whose month 1 had a payment override that closed a debt
\* beyond its default payment: the budget, with the freed minimum, goes to
\* the other debt and does not cover it.
C27_Witness ==
    /\ Len(months_output) = 2
    /\ AllStartOpen
    /\ ClosedBeforeLastMonth # {}
    /\ \E i \in ClosedBeforeLastMonth :
         Cents(PrevMonth.payments[i]) > Cents(PrevMonth.defaultPayments[i])
    /\ SumFn(CentsOf(LastMonth.defaultPayments)) = settings.monthly_budget
    /\ SumFn(CentsOf(LastMonth.defaultPayments)) < SumFn(balances_after_interest)

\* The final payments debt i received over all months of the result.
TotalPaid(i) ==
    SumSeq([m \in 1..Len(result.months) |-> Cents(result.months[m].payments[i])])

\* C28: money is conserved per debt: in a returned result the final payments
\* of every debt over all months sum to its initial balance plus its
\* interestPaid; and in no month does a final payment exceed the debt's
\* post-interest balance, so the floor at zero of the final-payment step
\* discards nothing: the remaining balance is the post-interest balance less
\* the payment.
C28_MoneyConservedPerDebt ==
    /\ months_output # <<>> =>
         \A i \in 1..Len(debts) :
            /\ Cents(LastMonth.payments[i]) <= balances_after_interest[i]
            /\ Cents(LastMonth.remainingBalances[i])
                  = balances_after_interest[i] - Cents(LastMonth.payments[i])
    /\ pc = "returned" =>
         \A i \in 1..Len(debts) :
            /\ Cents(SummaryOf(i).initialBalance) = debts[i].balance
            /\ TotalPaid(i) = debts[i].balance + Cents(SummaryOf(i).interestPaid)

\* A returned run of two debts in which an override above the balance was
\* capped in one month and another override lowered a payment, and interest
\* was paid on both debts.
C28_Witness ==
    /\ pc = "returned"
    /\ Len(debts) = 2
    /\ \E m \in 1..Len(result.months) : \E i \in 1..Len(debts) :
         /\ CappedWarning(i) \in Range(result.months[m].paymentOverrideWarnings)
         /\ Cents(result.months[m].payments[i]) > Cents(result.months[m].defaultPayments[i])
    /\ \E m \in 1..Len(result.months) : \E i \in 1..Len(debts) :
         Cents(result.months[m].payments[i]) < Cents(result.months[m].defaultPayments[i])
    /\ \A i \in 1..Len(debts) : Cents(SummaryOf(i).interestPaid) > 0

\* The rows registered for month k or an earlier month.
RECURSIVE RowsUpTo(_, _)
RowsUpTo(rows, k) ==
    IF rows = <<>> THEN <<>>
    ELSE IF Head(rows).month_index <= k
         THEN <<Head(rows)>> \o RowsUpTo(Tail(rows), k)
         ELSE RowsUpTo(Tail(rows), k)

\* The run has an override registered for a month after month k.
HasLaterRows(k) ==
    \/ RowsUpTo(schedule_overrides, k) # schedule_overrides
    \/ RowsUpTo(payment_overrides, k) # payment_overrides

\* C29: overrides do not act backwards in time: the records of months 1..k
\* of a run are those of the run with the same settings and debts whose
\* overrides for months after k are taken away; so two runs that differ
\* only in overrides for months after k produce the same records for
\* months 1..k.
C29_NoEffectBackInTime ==
    \A k \in 1..Len(months_output) :
        HasLaterRows(k) =>
            SubSeq(months_output, 1, k) =
                run_months(k, settings, debts,
                           RowsUpTo(schedule_overrides, k),
                           RowsUpTo(payment_overrides, k)).months_output

\* Month 2 of a run whose overrides are all for month 2: they acted in month
\* 2 (a schedule amount in the pool, a final payment that differs from the
\* default one), and the record of month 1 is that of the run without them.
C29_Witness ==
    /\ Len(months_output) = 2
    /\ schedule_overrides # <<>>
    /\ payment_overrides # <<>>
    /\ RowsUpTo(schedule_overrides, 1) = <<>>
    /\ RowsUpTo(payment_overrides, 1) = <<>>
    /\ Cents(LastMonth.additionalAmount) > 0
    /\ LastMonth.payments # LastMonth.defaultPayments
    /\ <<PrevMonth>> = run_months(1, settings, debts, <<>>, <<>>).months_output

\* Month 4 of a run whose overrides are all for month 4: they acted in
\* month 4, and the records of months 1 to 3 are those of the run without
\* them.
C29_WitnessLater ==
    /\ Len(months_output) = 4
    /\ schedule_overrides # <<>>
    /\ payment_overrides # <<>>
    /\ RowsUpTo(schedule_overrides, 3) = <<>>
    /\ RowsUpTo(payment_overrides, 3) = <<>>
    /\ Cents(LastMonth.additionalAmount) > 0
    /\ LastMonth.payments # LastMonth.defaultPayments
    /\ SubSeq(months_output, 1, 3) = run_months(3, settings, debts, <<>>, <<>>).months_output

\* The number of calendar months from January of year 0 to the month of d.
MonthNumber(d) == (12 * d.year) + (d.month - 1)

\* d is a date of the calendar.
ValidDate(d) ==
    /\ d.month \in 1..12
    /\ d.day \in 1..DaysInMonth(d.year, d.month)

\* C30: the date of month m is the balance date advanced by m - 1 calendar
\* months, with the day min(day of the balance date, last day of the target
\* month): it is a valid date, the label names its month and year, and the
\* clamping does not accumulate (from Jan 31, month 2 is the last day of
\* February and month 3 is Mar 31).
C30_MonthDates ==
    months_output # <<>> =>
        /\ \A d \in {LastMonth.dateISO} :
            /\ MonthNumber(d) = MonthNumber(settings.balance_date) + (LastMonth.monthIndex - 1)
            /\ d.day = Min(settings.balance_date.day, DaysInMonth(d.year, d.month))
            /\ ValidDate(d)
            /\ LastMonth.monthLabel = [month |-> d.month, year |-> d.year]
        /\ (settings.balance_date.month = 1 /\ settings.balance_date.day = 31) =>
            /\ LastMonth.monthIndex = 2 =>
                  LastMonth.dateISO =
                     [year |-> settings.balance_date.year, month |-> 2,
                      day |-> IF IsLeap(settings.balance_date.year) THEN 29 ELSE 28]
            /\ LastMonth.monthIndex = 3 =>
                  LastMonth.dateISO =
                     [year |-> settings.balance_date.year, month |-> 3, day |-> 31]

\* Month 3 of a run from Jan 31 of a leap year: February was clamped to the
\* 29th and March is the 31st again.
C30_Witness ==
    /\ Len(months_output) = 3
    /\ settings.balance_date = [year |-> 2024, month |-> 1, day |-> 31]
    /\ PrevMonth.dateISO = [year |-> 2024, month |-> 2, day |-> 29]
    /\ LastMonth.dateISO = [year |-> 2024, month |-> 3, day |-> 31]

\* A run from Nov 30 that passes the end of the year and a February.
C30_WitnessNewYear ==
    /\ Len(months_output) = 4
    /\ settings.balance_date = [year |-> 2023, month |-> 11, day |-> 30]
    /\ PrevMonth.dateISO = [year |-> 2024, month |-> 1, day |-> 30]
    /\ LastMonth.dateISO = [year |-> 2024, month |-> 2, day |-> 29]

\* A run from Nov 30 of the last year of the calendar: the months of
\* November and December were recorded, and the date after December does
\* not exist, so the run ended with the ValueError of date().
C30_WitnessLastYear ==
    /\ pc = "error"
    /\ error = "date_out_of_range"
    /\ Len(months_output) = 2
    /\ settings.balance_date = [year |-> MaxYear, month |-> 11, day |-> 30]
    /\ LastMonth.dateISO = [year |-> MaxYear, month |-> 12, day |-> 30]

====
